---- MODULE Spec2Model ----
(***************************************************************************)
(* BTstudio workspace store, file operations and save pipeline.            *)
(*                                                                         *)
(* The store (workspaceStore.tsx) is the record `state`, changed only by   *)
(* workspaceReducer.  The asynchronous operations of useWorkspaceOps.ts    *)
(* (openWorkspace, openTreeFile, saveWorkspace) are processes that run     *)
(* from one await to the next; each keeps the `state` its closure          *)
(* captured when the handler was entered.  The file system behind          *)
(* window.electronAPI (electron/main.js) is the function `disk`.           *)
(***************************************************************************)
EXTENDS Integers, Sequences, FiniteSets, TLC

\* ------------------------------------------------------------------------
\* Bounds of the model
\* ------------------------------------------------------------------------
\* number of editing dispatches (UPDATE_TREE, subtree creation) explored
MaxEdits == 1
\* number of saveWorkspace and importTreeAsSubtree runs explored
MaxSaves == 1
\* number of openWorkspace / openTreeFile handler runs explored
MaxOpens == 2

\* ------------------------------------------------------------------------
\* Values
\* ------------------------------------------------------------------------
\* JavaScript null for string-valued fields
Null == "null"
\* libraryModifiedTime: null
NoTime == 0

\* the workspace folder picked in the openFolder dialog
Folder == "ws"
\* tree files of the folder (listXmlFiles excludes the library file)
Paths == {"f1", "f2", "f3"}
\* order in which readdir lists the files
PathOrder == <<"f1", "f2", "f3">>
SUBTREE_LIBRARY_FILENAME == "subtree_library.xml"
\* component (subtree) identifiers
Ids == {"A", "B"}
\* iteration order of the Maps keyed by subtree id
IdOrder == <<"A", "B">>

\* --- nodes ---------------------------------------------------------------
RootNode == [category |-> "root", type |-> "Root", subtreeId |-> ""]
SeqNode == [category |-> "control", type |-> "Sequence", subtreeId |-> ""]
ActNode == [category |-> "action", type |-> "PrintMessage", subtreeId |-> ""]
SetVarNode == [category |-> "action", type |-> "SetBlackboard", subtreeId |-> ""]
SubNode(id) == [category |-> "subtree", type |-> id, subtreeId |-> id]

Edge(s, t) == [source |-> s, target |-> t]

\* --- tree bodies the editor and the files of the folder can hold ---------
BodyRoot == [nodes |-> <<RootNode>>, edges |-> <<>>]
BodyAct == [nodes |-> <<RootNode, ActNode>>, edges |-> <<Edge(1, 2)>>]
BodyVar == [nodes |-> <<RootNode, SetVarNode>>, edges |-> <<Edge(1, 2)>>]
BodyRef(id) == [nodes |-> <<RootNode, SubNode(id)>>, edges |-> <<Edge(1, 2)>>]
BodySeq ==
  [nodes |-> <<RootNode, SeqNode, ActNode, SetVarNode>>,
   edges |-> <<Edge(1, 2), Edge(2, 3), Edge(2, 4)>>]

\* TreeData of xmlSerializer.ts
MkTree(id, body, variables, description, ports) ==
  [id |-> id, nodes |-> body.nodes, edges |-> body.edges,
   variables |-> variables, description |-> description, ports |-> ports]

\* mainTree: null
NullTree == MkTree("", [nodes |-> <<>>, edges |-> <<>>], <<>>, "", <<>>)

\* Map<string, TreeData>: a function whose domain is the set of keys
EmptyMap == [id \in {} |-> NullTree]
MapSet(m, k, v) == [x \in (DOMAIN m) \cup {k} |-> IF x = k THEN v ELSE m[x]]

\* JSON.parse(JSON.stringify(x)) and [...x]: a copy by value
DeepCopy(x) == x

\* ------------------------------------------------------------------------
\* workspaceStore.tsx: state and reducer
\* ------------------------------------------------------------------------
initialState ==
  [workspacePath |-> Null,
   workspaceFiles |-> <<>>,
   activeFilePath |-> Null,
   activeFileName |-> "Untitled",
   mainTree |-> NullTree,
   subtrees |-> EmptyMap,
   activeTreeId |-> Null,
   librarySubtrees |-> EmptyMap,
   libraryModifiedTime |-> NoTime,
   isDirty |-> FALSE,
   modifiedSubtreeIds |-> {},
   fileModifiedTimes |-> [p \in {} |-> NoTime]]

\* case 'SET_WORKSPACE_PATH' (files: sequence of [path, name, modifiedTime])
SetWorkspacePath(s, path, files) ==
  [s EXCEPT !.workspacePath = path,
            !.workspaceFiles = files,
            !.fileModifiedTimes =
               [p \in {files[i].path : i \in 1..Len(files)} |->
                  (CHOOSE f \in {files[i] : i \in 1..Len(files)} : f.path = p).modifiedTime]]

\* case 'SET_ACTIVE_FILE'
\* variant: opening a file also puts its subtrees into the library
SetActiveFile_IntoLibrary(s, path, name, mainTree, subtrees) ==
  [s EXCEPT !.activeFilePath = path,
            !.activeFileName = name,
            !.mainTree = mainTree,
            !.subtrees = subtrees,
            !.activeTreeId = Null,
            !.isDirty = FALSE,
            !.modifiedSubtreeIds = {},
            !.librarySubtrees =
              [id \in (DOMAIN s.librarySubtrees) \cup (DOMAIN subtrees) |->
                 IF id \in DOMAIN subtrees THEN subtrees[id]
                 ELSE s.librarySubtrees[id]]]

SetActiveFile(s, path, name, mainTree, subtrees) ==
  [s EXCEPT !.activeFilePath = path,
            !.activeFileName = name,
            !.mainTree = mainTree,
            !.subtrees = subtrees,
            !.activeTreeId = Null,
            !.isDirty = FALSE,
            !.modifiedSubtreeIds = {}]

\* case 'SET_LIBRARY_SUBTREES'
SetLibrarySubtrees(s, subtrees, modifiedTime) ==
  [s EXCEPT !.librarySubtrees = subtrees,
            !.libraryModifiedTime = modifiedTime]

\* case 'SET_ACTIVE_TREE'
SetActiveTree(s, treeId) == [s EXCEPT !.activeTreeId = treeId]

\* UPDATE_TREE with a subtree branch that builds the entry from the action
\* alone
UpdateTree_FromActionOnly(s, treeId, nodes, edges, variables) ==
  IF treeId = Null
  THEN [s EXCEPT !.mainTree =
                    IF s.mainTree # NullTree
                    THEN [s.mainTree EXCEPT !.nodes = nodes, !.edges = edges,
                                            !.variables = variables]
                    ELSE MkTree("MainTree", [nodes |-> nodes, edges |-> edges],
                                variables, "", <<>>),
                 !.isDirty = TRUE]
  ELSE [s EXCEPT !.subtrees =
                    MapSet(s.subtrees, treeId,
                           MkTree(treeId, [nodes |-> nodes, edges |-> edges],
                                  variables, "", <<>>)),
                 !.modifiedSubtreeIds = s.modifiedSubtreeIds \cup {treeId},
                 !.isDirty = TRUE]

\* case 'UPDATE_TREE'
UpdateTree(s, treeId, nodes, edges, variables) ==
  IF treeId = Null
  THEN [s EXCEPT !.mainTree =
                    IF s.mainTree # NullTree
                    THEN [s.mainTree EXCEPT !.nodes = nodes, !.edges = edges,
                                            !.variables = variables]
                    ELSE MkTree("MainTree", [nodes |-> nodes, edges |-> edges],
                                variables, "", <<>>),
                 !.isDirty = TRUE]
  ELSE LET exists == treeId \in DOMAIN s.subtrees
           existing == IF exists THEN s.subtrees[treeId] ELSE NullTree
       IN [s EXCEPT !.subtrees =
                       MapSet(s.subtrees, treeId,
                              [id |-> treeId,
                               nodes |-> nodes,
                               edges |-> edges,
                               \* existingSubtree?.variables || variables
                               \* (an array, even an empty one, is truthy)
                               variables |-> IF exists THEN existing.variables
                                             ELSE variables,
                               description |-> existing.description,
                               ports |-> existing.ports]),
                    !.modifiedSubtreeIds = s.modifiedSubtreeIds \cup {treeId},
                    !.isDirty = TRUE]

\* case 'ADD_SUBTREE_FROM_LIBRARY'
AddSubtreeFromLibrary(s, subtreeId) ==
  IF subtreeId \notin DOMAIN s.librarySubtrees
  THEN s
  ELSE LET librarySubtree == s.librarySubtrees[subtreeId]
           subtreeCopy ==
             [id |-> librarySubtree.id,
              nodes |-> DeepCopy(librarySubtree.nodes),
              edges |-> DeepCopy(librarySubtree.edges),
              variables |-> DeepCopy(librarySubtree.variables),
              description |-> librarySubtree.description,
              ports |-> DeepCopy(librarySubtree.ports)]
       IN [s EXCEPT !.subtrees = MapSet(s.subtrees, subtreeId, subtreeCopy),
                    !.isDirty = TRUE]

\* case 'ADD_NEW_SUBTREE_TO_LIBRARY'
AddNewSubtreeToLibrary(s, subtree) ==
  [s EXCEPT !.librarySubtrees = MapSet(s.librarySubtrees, subtree.id, subtree),
            !.modifiedSubtreeIds = s.modifiedSubtreeIds \cup {subtree.id},
            !.isDirty = TRUE]

\* case 'CLEAR_MODIFIED_SUBTREES'
\* variant: CLEAR_MODIFIED_SUBTREES that empties the set and keeps isDirty
ClearModifiedSubtrees_KeepsDirty(s) ==
  [s EXCEPT !.modifiedSubtreeIds = {}]

\* variant: CLEAR_MODIFIED_SUBTREES that resets isDirty and keeps the set
ClearModifiedSubtrees_KeepsSet(s) ==
  [s EXCEPT !.isDirty = FALSE]

ClearModifiedSubtrees(s) ==
  [s EXCEPT !.modifiedSubtreeIds = {}, !.isDirty = FALSE]

\* case 'UPDATE_FILE_MODIFIED_TIME'
UpdateFileModifiedTime(s, filePath, modifiedTime) ==
  [s EXCEPT !.fileModifiedTimes =
               [p \in (DOMAIN s.fileModifiedTimes) \cup {filePath} |->
                  IF p = filePath THEN modifiedTime ELSE s.fileModifiedTimes[p]]]

\* ------------------------------------------------------------------------
\* xmlSerializer.ts: the wire format, as far as the workspace needs it
\* ------------------------------------------------------------------------
\* a field value and an attribute value are texts: sequences of characters
Wrapped(text) ==
  /\ Len(text) >= 2
  /\ text[1] = "{"
  /\ text[Len(text)] = "}"

\* NodeField: { name, value, valueType: 'literal' | 'variable' }
Field(name, valueType, value) ==
  [name |-> name, valueType |-> valueType, value |-> value]

\* export: a variable field is wrapped in {...}, a literal is used as-is
EncodeField_AlwaysAsIs(field) == field.value
EncodeField(field) ==
  IF field.valueType = "variable"
  THEN (<<"{">> \o field.value) \o <<"}">>
  ELSE field.value

\* import: an attribute value matching the reference-delimiter pattern is a
\* variable reference with the delimiters stripped, any other a literal
DecodeField(name, text) ==
  IF Wrapped(text)
  THEN Field(name, "variable", SubSeq(text, 2, Len(text) - 1))
  ELSE Field(name, "literal", text)

\* node.data.fields is optional: a node may come without it
HasFields(node) == "fields" \in DOMAIN node
FieldsOf(node) == IF HasFields(node) THEN node.fields ELSE <<>>
HasAttributes(element) == "attributes" \in DOMAIN element
AttributesOf(element) ==
  IF HasAttributes(element) THEN element.attributes ELSE <<>>

\* one node element: the fields, when the node has them, become attributes
EncodeNode(node) ==
  IF HasFields(node)
  THEN [category |-> node.category, type |-> node.type,
        subtreeId |-> node.subtreeId,
        attributes |-> [k \in 1..Len(node.fields) |->
                          [name |-> node.fields[k].name,
                           text |-> EncodeField(node.fields[k])]]]
  ELSE [category |-> node.category, type |-> node.type,
        subtreeId |-> node.subtreeId]

DecodeNode(element) ==
  IF HasAttributes(element)
  THEN [category |-> element.category, type |-> element.type,
        subtreeId |-> element.subtreeId,
        fields |-> [k \in 1..Len(element.attributes) |->
                      DecodeField(element.attributes[k].name,
                                  element.attributes[k].text)]]
  ELSE [category |-> element.category, type |-> element.type,
        subtreeId |-> element.subtreeId]

\* targets of the edges leaving node i, in edge-list order
ChildrenOf(edges, i) ==
  LET out == SelectSeq(edges, LAMBDA e : e.source = i)
  IN [k \in 1..Len(out) |-> out[k].target]

\* nested node elements: the nesting encodes the parent/child edges
RECURSIVE Nest(_, _, _)
Nest(nodes, edges, i) ==
  LET ch == ChildrenOf(edges, i)
  IN [node |-> EncodeNode(nodes[i]),
      children |-> [k \in 1..Len(ch) |-> Nest(nodes, edges, ch[k])]]

RootIndexes(nodes) == {i \in 1..Len(nodes) : nodes[i].category = "root"}

\* one <BehaviorTree ID=...> element with its description comment and its
\* <TreeNodesModel> port declarations; variables are not written
SerializeTree(tree) ==
  [id |-> tree.id,
   description |-> tree.description,
   body |-> IF RootIndexes(tree.nodes) = {}
            THEN <<>>
            ELSE <<Nest(tree.nodes, tree.edges,
                        CHOOSE i \in RootIndexes(tree.nodes) :
                          \A j \in RootIndexes(tree.nodes) : i <= j)>>,
   ports |-> tree.ports]

\* preorder flattening of a nested element; the element gets index base + 1
RECURSIVE Flatten(_, _)
RECURSIVE FlattenChildren(_, _, _, _)
FlattenChildren(children, k, parent, acc) ==
  IF k > Len(children)
  THEN acc
  ELSE LET sub == Flatten(children[k], parent + Len(acc.nodes))
       IN FlattenChildren(children, k + 1, parent,
            [nodes |-> acc.nodes \o sub.nodes,
             edges |-> (acc.edges
                          \o <<Edge(parent, parent + Len(acc.nodes) + 1)>>)
                         \o sub.edges])
Flatten(element, base) ==
  LET own == FlattenChildren(element.children, 1, base + 1,
                             [nodes |-> <<>>, edges |-> <<>>])
  IN [nodes |-> <<DecodeNode(element.node)>> \o
                [k \in 1..Len(own.nodes) |-> own.nodes[k]],
      edges |-> own.edges]

\* variables are derived by scanning for the variable-write node type
RECURSIVE DeriveVariables(_)
DeriveVariables(nodes) ==
  IF nodes = <<>>
  THEN <<>>
  ELSE (IF Head(nodes).type = "SetBlackboard"
        THEN <<[name |-> "v", value |-> "1"]>>
        ELSE <<>>) \o DeriveVariables(Tail(nodes))

\* a component with no root node is a structural error
TreeParses(st) == st.body # <<>>

ParseTree(st) ==
  LET flat == Flatten(st.body[1], 0)
  IN [id |-> st.id, nodes |-> flat.nodes, edges |-> flat.edges,
      variables |-> DeriveVariables(flat.nodes),
      description |-> st.description, ports |-> st.ports]

\* file contents
Missing == [kind |-> "missing"]
Corrupt == [kind |-> "corrupt"]

exportMultiTreeToXML(mainTree, subtrees) ==
  [kind |-> "doc",
   main |-> SerializeTree(mainTree),
   subs |-> [id \in DOMAIN subtrees |-> SerializeTree(subtrees[id])]]

exportSubtreeLibraryToXML(subtrees) ==
  [kind |-> "lib",
   subs |-> [id \in DOMAIN subtrees |-> SerializeTree(subtrees[id])]]

\* importMultiTreeFromXML throws on malformed markup or a rootless tree
MultiTreeParses(content) ==
  /\ content.kind = "doc"
  /\ TreeParses(content.main)
  /\ \A id \in DOMAIN content.subs : TreeParses(content.subs[id])

importMultiTreeFromXML(content) ==
  [mainTree |-> ParseTree(content.main),
   subtrees |-> [id \in DOMAIN content.subs |-> ParseTree(content.subs[id])]]

LibraryParses(content) ==
  /\ content.kind = "lib"
  /\ \A id \in DOMAIN content.subs : TreeParses(content.subs[id])

importSubtreeLibraryFromXML(content) ==
  [id \in DOMAIN content.subs |-> ParseTree(content.subs[id])]

\* ids of the subtrees referenced by SubTree nodes
getReferencedSubtreeIds(nodes) ==
  {nodes[i].subtreeId : i \in {j \in 1..Len(nodes) : nodes[j].category = "subtree"}}

\* ------------------------------------------------------------------------
\* useWorkspaceOps.ts: pure helpers
\* ------------------------------------------------------------------------
\* checkLibraryDiscrepancies: fileSubtrees.forEach(...) pushing the ids whose
\* node or edge count differs from the library's
RECURSIVE CheckFrom(_, _, _)
CheckFrom(fileSubtrees, librarySubtrees, order) ==
  IF order = <<>>
  THEN <<>>
  ELSE LET subtreeId == Head(order)
           rest == CheckFrom(fileSubtrees, librarySubtrees, Tail(order))
       IN IF /\ subtreeId \in DOMAIN fileSubtrees
             /\ subtreeId \in DOMAIN librarySubtrees
             /\ \/ Len(fileSubtrees[subtreeId].nodes)
                     # Len(librarySubtrees[subtreeId].nodes)
                \/ Len(fileSubtrees[subtreeId].edges)
                     # Len(librarySubtrees[subtreeId].edges)
          THEN <<subtreeId>> \o rest
          ELSE rest

\* variant: without the `if (librarySubtree)` guard, a subtree the library
\* does not hold is compared with an empty tree
checkLibraryDiscrepancies_Unguarded(fileSubtrees, librarySubtrees) ==
  CheckFrom(fileSubtrees,
            [id \in Ids |-> IF id \in DOMAIN librarySubtrees
                            THEN librarySubtrees[id] ELSE NullTree],
            IdOrder)

checkLibraryDiscrepancies(fileSubtrees, librarySubtrees) ==
  CheckFrom(fileSubtrees, librarySubtrees, IdOrder)

SeqToSet(q) == {q[i] : i \in 1..Len(q)}

\* openTreeFile: discrepancies.forEach(... parseResult.subtrees.set(id, copy))
ReplaceWithLibrary(parseResult, discrepancies, librarySubtrees) ==
  [parseResult EXCEPT !.subtrees =
     [id \in DOMAIN parseResult.subtrees |->
        IF id \in SeqToSet(discrepancies) /\ id \in DOMAIN librarySubtrees
        THEN [librarySubtrees[id] EXCEPT
                !.nodes = DeepCopy(librarySubtrees[id].nodes),
                !.edges = DeepCopy(librarySubtrees[id].edges),
                !.variables = DeepCopy(librarySubtrees[id].variables),
                !.ports = DeepCopy(librarySubtrees[id].ports)]
        ELSE parseResult.subtrees[id]]]

\* saveWorkspace step 2: merge all subtrees of the current file into the library
MergeLibrary(librarySubtrees, subtrees) ==
  [id \in (DOMAIN librarySubtrees) \cup (DOMAIN subtrees) |->
     IF id \in DOMAIN subtrees THEN subtrees[id] ELSE librarySubtrees[id]]

\* saveWorkspace step 3: the ids handed to updateWorkspaceFiles as
\* modifiedSubtreeIds (new Set(state.subtrees.keys()))
PropagatedIds(s) == DOMAIN s.subtrees

\* updateWorkspaceFiles: [...fileSubtreeIds, ...mainTreeRefs]
AllRefs(parseResult) ==
  (DOMAIN parseResult.subtrees)
    \cup getReferencedSubtreeIds(parseResult.mainTree.nodes)

NeedsUpdate(parseResult, modifiedSubtreeIds) ==
  modifiedSubtreeIds \cap AllRefs(parseResult) # {}

\* updateWorkspaceFiles: the modifiedSubtreeIds.forEach body
\* variant: the loop marks the file for update and replaces nothing
ApplyUpdates_KeepsEmbedded(parseResult, modifiedSubtreeIds, updatedSubtrees) ==
  parseResult

ApplyUpdates(parseResult, modifiedSubtreeIds, updatedSubtrees) ==
  LET hit == (modifiedSubtreeIds \cap AllRefs(parseResult))
               \cap DOMAIN updatedSubtrees
  IN [parseResult EXCEPT !.subtrees =
        [id \in (DOMAIN parseResult.subtrees) \cup hit |->
           IF id \in hit
           THEN [id |-> id,
                 nodes |-> DeepCopy(updatedSubtrees[id].nodes),
                 edges |-> DeepCopy(updatedSubtrees[id].edges),
                 variables |-> DeepCopy(updatedSubtrees[id].variables),
                 description |-> updatedSubtrees[id].description,
                 ports |-> DeepCopy(updatedSubtrees[id].ports)]
           ELSE parseResult.subtrees[id]]]

\* for (const file of workspaceFiles) { if (file.path === excludePath) continue
\* index of the next file to process after position `from`, 0 when none is left
\* variant: the loop takes the last remaining file first
NextFile_LastFirst(workspaceFiles, from, excludePath) ==
  LET later == {i \in (from + 1)..Len(workspaceFiles) :
                  workspaceFiles[i].path # excludePath}
  IN IF later = {} THEN 0
     ELSE CHOOSE i \in later : \A j \in later : i >= j

NextFile(workspaceFiles, from, excludePath) ==
  LET later == {i \in (from + 1)..Len(workspaceFiles) :
                  workspaceFiles[i].path # excludePath}
  IN IF later = {} THEN 0
     ELSE CHOOSE i \in later : \A j \in later : i <= j

\* ------------------------------------------------------------------------
\* The system: store, file system, the handler in progress
\* ------------------------------------------------------------------------
VARIABLES
  state,          \* the WorkspaceState held by the reducer
  disk,           \* file path -> content
  diskTime,       \* file path -> modification time (a write counter)
  pc,             \* the await the handler in progress is suspended at
  closure,        \* the `state` captured by the handler's closure
  loc,            \* the handler's local variables
  chain,          \* the menu handler calls openTreeFile after openWorkspace
  ioLog,          \* file operations of the current saveWorkspace, in order
  consoleErrors,  \* paths logged by updateWorkspaceFiles' catch block
  ret,            \* what the handler that finished in the last step returned
  used,           \* editing dispatches, saves and open handlers so far
  heap,           \* object identities of the TreeData held by the store
  runs,           \* the executions of saveWorkspace that may overlap
  editor,         \* the nodes and edges held by the TreeEditor canvas
  codec,          \* a document, its wire text and what the import returns
  sync            \* TreeEditor's nodes and edges, its loading flag and timers

\* the variables of the studies that look at one part of the program alone
auxvars == <<heap, runs, editor, codec, sync>>

\* the variables of the workspace operations
opsvars == <<state, disk, diskTime, pc, closure, loc, chain, ioLog,
             consoleErrors, ret, used>>

vars == <<state, disk, diskTime, pc, closure, loc, chain, ioLog,
          consoleErrors, ret, used, heap, runs, editor, codec, sync>>

\* the part studies are at rest while the workspace operations are explored
NoHeap ==
  [workspacePath |-> Null, hasMainTree |-> FALSE, subtrees |-> << >>,
   librarySubtrees |-> << >>, next |-> 1]
NoRuns == << >>
NoEditor == [nodes |-> << >>, edges |-> {}, last |-> "none"]
NoCodec == [stage |-> "none"]
NoSync ==
  [nodes |-> <<>>, edges |-> <<>>, variables |-> <<>>,
   isLoadingFromWorkspace |-> FALSE, timers |-> 0]
AuxInit ==
  /\ heap = NoHeap
  /\ runs = NoRuns
  /\ editor = NoEditor
  /\ codec = NoCodec
  /\ sync = NoSync

LibraryPath == "ws/subtree_library.xml"
AllPaths == Paths \cup {LibraryPath}

NoParse == [mainTree |-> NullTree, subtrees |-> EmptyMap]
NoLoc ==
  [targetPath |-> Null, parseResult |-> NoParse, discrepancies |-> <<>>,
   idx |-> 0, modifiedTime |-> NoTime, subtreeId |-> Null]
NoRet == [op |-> "none", value |-> FALSE, warning |-> ""]
Returned(op, value, warning) == [op |-> op, value |-> value, warning |-> warning]

Ev(kind, op, path) == [kind |-> kind, op |-> op, path |-> path]

\* fs:listXmlFiles
ListXmlFiles ==
  LET present == SelectSeq(PathOrder, LAMBDA p : disk[p] # Missing)
  IN [i \in 1..Len(present) |->
        [path |-> present[i], name |-> present[i],
         modifiedTime |-> diskTime[present[i]]]]

\* fs:writeFile succeeding
WriteFile(path, content) ==
  /\ disk' = [disk EXCEPT ![path] = content]
  /\ diskTime' = [diskTime EXCEPT ![path] = @ + 1]

\* ------------------------------------------------------------------------
\* Initial state: the application just started, the folder holds some files
\* ------------------------------------------------------------------------
Doc(mainBody, subs) ==
  exportMultiTreeToXML(MkTree("MainTree", mainBody, <<>>, "", <<>>), subs)

\* embeds A and instantiates it
DocEmbedA ==
  Doc(BodyRef("A"), [id \in {"A"} |-> MkTree("A", BodyAct, <<>>, "", <<>>)])
\* instantiates A through a SubTree node without embedding it
DocRefA == Doc(BodyRef("A"), EmptyMap)
\* embeds B only
DocEmbedB ==
  Doc(BodyAct, [id \in {"B"} |-> MkTree("B", BodyVar, <<>>, "", <<>>)])
\* no subtree at all
\* a document whose main BehaviorTree element holds no Root: it is well-formed
\* XML and the importer rejects its structure
DocNoRoot == Doc([nodes |-> <<ActNode>>, edges |-> <<>>], EmptyMap)

\* libraries: A with other counts than the files' A; A with the same counts
\* but another content
LibBigA ==
  exportSubtreeLibraryToXML(
    [id \in {"A"} |-> MkTree("A", BodySeq, <<>>, "lib", <<"in", "out">>)])
LibSameCountA ==
  exportSubtreeLibraryToXML(
    [id \in {"A"} |-> MkTree("A", BodyVar, <<>>, "lib", <<"in">>)])

\* the folders the exploration starts from
DiskOf(f2, f3, library) ==
  [p \in AllPaths |->
     IF p = "f1" THEN DocEmbedA
     ELSE IF p = "f2" THEN f2
     ELSE IF p = "f3" THEN f3
     ELSE library]

InitialDisks ==
  {DiskOf(DocRefA, DocEmbedA, LibBigA),
   DiskOf(DocNoRoot, DocEmbedA, LibSameCountA),
   DiskOf(Corrupt, DocEmbedB, Missing)}

Init ==
  /\ state = initialState
  /\ disk \in InitialDisks
  /\ diskTime = [p \in AllPaths |-> 1]
  /\ pc = "idle"
  /\ closure = initialState
  /\ loc = NoLoc
  /\ chain = FALSE
  /\ ioLog = <<>>
  /\ consoleErrors = {}
  /\ ret = NoRet
  /\ used = [edits |-> 0, saves |-> 0, opens |-> 0, imports |-> 0]
  /\ AuxInit

\* ------------------------------------------------------------------------
\* openWorkspace (and the menu handler that opens a tree file right after)
\* ------------------------------------------------------------------------
\* the handler is entered and the folder dialog answered; `chained` is the
\* menu:openWorkspace handler of WorkspaceToolbar, which calls openTreeFile
\* of the same render once openWorkspace has returned true
OpenWorkspaceStart(chained) ==
  /\ pc = "idle"
  /\ used.opens < MaxOpens
  /\ pc' = "ws_list"
  /\ closure' = state
  /\ chain' = chained
  /\ loc' = NoLoc
  /\ ioLog' = <<>>
  /\ consoleErrors' = {}
  /\ ret' = NoRet
  /\ used' = [used EXCEPT !.opens = @ + 1]
  /\ UNCHANGED <<state, disk, diskTime>>
  /\ UNCHANGED auxvars

\* listXmlFiles resolved: dispatch SET_WORKSPACE_PATH, read the library file
OpenWorkspaceListed ==
  /\ pc = "ws_list"
  /\ state' = SetWorkspacePath(state, Folder, ListXmlFiles)
  /\ pc' = "ws_read"
  /\ UNCHANGED <<disk, diskTime, closure, loc, chain, ioLog, consoleErrors,
                 ret, used>>
  /\ UNCHANGED auxvars

\* openWorkspace returns true; the menu handler goes on to the file picker
OpenWorkspaceReturnsTrue ==
  /\ ret' = Returned("openWorkspace", TRUE, "")
  /\ pc' = IF chain THEN "open_pick" ELSE "idle"

\* the library file was read and parsed: dispatch SET_LIBRARY_SUBTREES
OpenWorkspaceLibraryLoaded ==
  /\ pc = "ws_read"
  /\ disk[LibraryPath] # Missing
  /\ LibraryParses(disk[LibraryPath])
  /\ state' = SetLibrarySubtrees(state,
                 importSubtreeLibraryFromXML(disk[LibraryPath]),
                 diskTime[LibraryPath])
  /\ OpenWorkspaceReturnsTrue
  /\ UNCHANGED <<disk, diskTime, closure, loc, chain, ioLog, consoleErrors,
                 used>>
  /\ UNCHANGED auxvars

\* readFile resolved null: write an empty library file
\* variant: the empty library is installed without writing the file
OpenWorkspaceLibraryMissing_NoFile ==
  /\ pc = "ws_read"
  /\ disk[LibraryPath] = Missing
  /\ state' = SetLibrarySubtrees(state, EmptyMap, NoTime)
  /\ OpenWorkspaceReturnsTrue
  /\ UNCHANGED <<disk, diskTime, closure, loc, chain, ioLog, consoleErrors,
                 used>>
  /\ UNCHANGED auxvars

OpenWorkspaceLibraryMissing ==
  /\ pc = "ws_read"
  /\ disk[LibraryPath] = Missing
  /\ pc' = "ws_write"
  /\ UNCHANGED <<state, disk, diskTime, closure, loc, chain, ioLog,
                 consoleErrors, ret, used>>
  /\ UNCHANGED auxvars

\* the empty library file was written: dispatch SET_LIBRARY_SUBTREES(empty)
OpenWorkspaceLibraryCreated ==
  /\ pc = "ws_write"
  /\ WriteFile(LibraryPath, exportSubtreeLibraryToXML(EmptyMap))
  /\ state' = SetLibrarySubtrees(state, EmptyMap, NoTime)
  /\ OpenWorkspaceReturnsTrue
  /\ UNCHANGED <<closure, loc, chain, ioLog, consoleErrors, used>>
  /\ UNCHANGED auxvars

\* the read, the parse or the write threw: catch, return false
OpenWorkspaceFails ==
  /\ pc \in {"ws_read", "ws_write"}
  /\ pc' = "idle"
  /\ ret' = Returned("openWorkspace", FALSE, "")
  /\ UNCHANGED <<state, disk, diskTime, closure, loc, chain, ioLog,
                 consoleErrors, used>>
  /\ UNCHANGED auxvars

\* ------------------------------------------------------------------------
\* openTreeFile
\* ------------------------------------------------------------------------
\* called on its own (menu:openTree, welcome screen): the closure holds the
\* state of the current render; the file picker returns an existing file
OpenTreeFileStart(path) ==
  /\ pc = "idle"
  /\ used.opens < MaxOpens
  /\ disk[path] # Missing
  /\ pc' = "open_read"
  /\ closure' = state
  /\ chain' = FALSE
  /\ loc' = [NoLoc EXCEPT !.targetPath = path]
  /\ ioLog' = <<>>
  /\ consoleErrors' = {}
  /\ ret' = NoRet
  /\ used' = [used EXCEPT !.opens = @ + 1]
  /\ UNCHANGED <<state, disk, diskTime>>
  /\ UNCHANGED auxvars

\* called by the menu:openWorkspace handler: the closure is still the one the
\* handler was entered with
OpenTreeFilePicked(path) ==
  /\ pc = "open_pick"
  /\ disk[path] # Missing
  /\ pc' = "open_read"
  /\ loc' = [NoLoc EXCEPT !.targetPath = path]
  /\ ret' = NoRet
  /\ UNCHANGED <<state, disk, diskTime, closure, chain, ioLog, consoleErrors,
                 used>>
  /\ UNCHANGED auxvars

\* the file picker was cancelled: if (!targetPath) return false
OpenTreeFileCancelled ==
  /\ pc = "open_pick"
  /\ pc' = "idle"
  /\ ret' = Returned("openTreeFile", FALSE, "")
  /\ UNCHANGED <<state, disk, diskTime, closure, loc, chain, ioLog,
                 consoleErrors, used>>
  /\ UNCHANGED auxvars

\* another program removes the file a read is waiting for
FileRemoved ==
  /\ pc \in {"open_read", "p3_read", "import_read"}
  /\ LET path == IF pc = "p3_read"
                 THEN closure.workspaceFiles[loc.idx].path
                 ELSE loc.targetPath
     IN /\ disk[path] # Missing
        /\ disk' = [disk EXCEPT ![path] = Missing]
  /\ UNCHANGED <<state, diskTime, pc, closure, loc, chain, ioLog,
                 consoleErrors, ret, used>>
  /\ UNCHANGED auxvars

\* readFile resolved null: warning 'Could not read file', return false
OpenTreeFileMissing ==
  /\ pc = "open_read"
  /\ disk[loc.targetPath] = Missing
  /\ pc' = "idle"
  /\ ret' = Returned("openTreeFile", FALSE, "Could not read file")
  /\ UNCHANGED <<state, disk, diskTime, closure, loc, chain, ioLog,
                 consoleErrors, used>>
  /\ UNCHANGED auxvars

\* readFile rejected (an error other than ENOENT): catch, warning, false
OpenTreeFileReadError ==
  /\ pc = "open_read"
  /\ disk[loc.targetPath] # Missing
  /\ pc' = "idle"
  /\ ret' = Returned("openTreeFile", FALSE,
                  "Failed to parse tree file (read error)")
  /\ UNCHANGED <<state, disk, diskTime, closure, loc, chain, ioLog,
                 consoleErrors, used>>
  /\ UNCHANGED auxvars

\* importMultiTreeFromXML threw: catch, warning with the error, false
\* variant: the active file is switched before the parse is known to succeed
OpenTreeFileParseError_PartialInstall ==
  /\ pc = "open_read"
  /\ disk[loc.targetPath] # Missing
  /\ ~MultiTreeParses(disk[loc.targetPath])
  /\ state' = [state EXCEPT !.activeFilePath = loc.targetPath,
                            !.activeFileName = loc.targetPath]
  /\ pc' = "idle"
  /\ ret' = Returned("openTreeFile", FALSE,
                  "Failed to parse tree file (parse error)")
  /\ UNCHANGED <<disk, diskTime, closure, loc, chain, ioLog, consoleErrors,
                 used>>
  /\ UNCHANGED auxvars

OpenTreeFileParseError ==
  /\ pc = "open_read"
  /\ disk[loc.targetPath] # Missing
  /\ ~MultiTreeParses(disk[loc.targetPath])
  /\ pc' = "idle"
  /\ ret' = Returned("openTreeFile", FALSE,
                  "Failed to parse tree file (parse error)")
  /\ UNCHANGED <<state, disk, diskTime, closure, loc, chain, ioLog,
                 consoleErrors, used>>
  /\ UNCHANGED auxvars

\* dispatch SET_ACTIVE_FILE and UPDATE_FILE_MODIFIED_TIME, return true
InstallFile(path, parseResult, modifiedTime) ==
  /\ state' = UpdateFileModifiedTime(
                 SetActiveFile(state, path, path, parseResult.mainTree,
                               parseResult.subtrees),
                 path, modifiedTime)
  /\ pc' = "idle"
  /\ ret' = Returned("openTreeFile", TRUE, "")

\* the file was read and parsed; the discrepancy check against the closure's
\* library decides between the confirm dialog and installing the document
\* variant: discrepant subtrees are replaced and the document installed
\* without the confirm dialog
OpenTreeFileParsed_SilentOverwrite ==
  /\ pc = "open_read"
  /\ disk[loc.targetPath] # Missing
  /\ MultiTreeParses(disk[loc.targetPath])
  /\ LET parseResult == importMultiTreeFromXML(disk[loc.targetPath])
         discrepancies ==
           checkLibraryDiscrepancies(parseResult.subtrees,
                                     closure.librarySubtrees)
     IN /\ loc' = [loc EXCEPT !.parseResult = parseResult,
                              !.discrepancies = discrepancies,
                              !.modifiedTime = diskTime[loc.targetPath]]
        /\ InstallFile(loc.targetPath,
                       ReplaceWithLibrary(parseResult, discrepancies,
                                          closure.librarySubtrees),
                       diskTime[loc.targetPath])
  /\ UNCHANGED <<disk, diskTime, closure, chain, ioLog, consoleErrors, used>>
  /\ UNCHANGED auxvars

OpenTreeFileParsed ==
  /\ pc = "open_read"
  /\ disk[loc.targetPath] # Missing
  /\ MultiTreeParses(disk[loc.targetPath])
  /\ LET parseResult == importMultiTreeFromXML(disk[loc.targetPath])
         discrepancies ==
           checkLibraryDiscrepancies(parseResult.subtrees,
                                     closure.librarySubtrees)
     IN /\ loc' = [loc EXCEPT !.parseResult = parseResult,
                              !.discrepancies = discrepancies,
                              !.modifiedTime = diskTime[loc.targetPath]]
        /\ IF Len(discrepancies) > 0
           THEN /\ pc' = "open_confirm"
                /\ UNCHANGED <<state, ret>>
           ELSE InstallFile(loc.targetPath, parseResult,
                            diskTime[loc.targetPath])
  /\ UNCHANGED <<disk, diskTime, closure, chain, ioLog, consoleErrors, used>>
  /\ UNCHANGED auxvars

\* showConfirm answered 'Continue': library versions replace the discrepant
\* subtrees, the document is installed
OpenTreeFileContinue ==
  /\ pc = "open_confirm"
  /\ InstallFile(loc.targetPath,
                 ReplaceWithLibrary(loc.parseResult, loc.discrepancies,
                                    closure.librarySubtrees),
                 loc.modifiedTime)
  /\ UNCHANGED <<disk, diskTime, closure, loc, chain, ioLog, consoleErrors,
                 used>>
  /\ UNCHANGED auxvars

\* showConfirm answered 'Cancel': return false
\* variant: 'Cancel' returns false after the parsed document was installed
OpenTreeFileAbort_Installs ==
  /\ pc = "open_confirm"
  /\ state' = SetActiveFile(state, loc.targetPath, loc.targetPath,
                            loc.parseResult.mainTree, loc.parseResult.subtrees)
  /\ pc' = "idle"
  /\ ret' = Returned("openTreeFile", FALSE, "")
  /\ UNCHANGED <<disk, diskTime, closure, loc, chain, ioLog, consoleErrors,
                 used>>
  /\ UNCHANGED auxvars

OpenTreeFileAbort ==
  /\ pc = "open_confirm"
  /\ pc' = "idle"
  /\ ret' = Returned("openTreeFile", FALSE, "")
  /\ UNCHANGED <<state, disk, diskTime, closure, loc, chain, ioLog,
                 consoleErrors, used>>
  /\ UNCHANGED auxvars

\* ------------------------------------------------------------------------
\* Editing (synchronous dispatches of the editor and the palette)
\* ------------------------------------------------------------------------
\* edits are explored between handlers and while a save awaits its file I/O
EditAllowed ==
  /\ pc \in {"idle", "save_doc", "save_lib", "p3_read", "p3_write",
            "import_read"}
  /\ used.edits < MaxEdits
  /\ state.mainTree # NullTree

\* what the finished handler left behind is dropped with the next dispatch
Settle ==
  /\ ret' = NoRet
  /\ IF pc = "idle"
     THEN /\ closure' = initialState
          /\ loc' = NoLoc
          /\ ioLog' = <<>>
          /\ consoleErrors' = {}
     ELSE UNCHANGED <<closure, loc, ioLog, consoleErrors>>
  /\ UNCHANGED <<disk, diskTime, pc, chain>>

\* nodes, edges and variables the editor may hold
EditorInputs ==
  {<<BodyVar, <<[name |-> "v", value |-> "1"]>>>>,
   <<BodySeq, <<>>>>}

\* TreeEditor's sync effect: dispatch UPDATE_TREE for the active tree
EditTree(body, variables) ==
  /\ EditAllowed
  /\ state' = UpdateTree(state, state.activeTreeId, body.nodes, body.edges,
                         variables)
  /\ state' # state
  /\ used' = [used EXCEPT !.edits = @ + 1]
  /\ Settle
  /\ UNCHANGED auxvars

\* SubTreeTabBar: switch to the main tree or to an embedded subtree
SelectTree(treeId) ==
  /\ pc \in {"idle", "save_doc", "save_lib", "p3_read", "p3_write"}
  /\ state.mainTree # NullTree
  /\ treeId \in (DOMAIN state.subtrees) \cup {Null}
  /\ treeId # state.activeTreeId
  /\ state' = SetActiveTree(state, treeId)
  /\ UNCHANGED used
  /\ Settle
  /\ UNCHANGED auxvars

\* NodePalette.handleLibrarySubtreeClick
\* variant: the click switches to the component without embedding it
LibrarySubtreeClick_SwitchOnly(subtreeId) ==
  /\ EditAllowed
  /\ subtreeId \in DOMAIN state.librarySubtrees
  /\ subtreeId \notin DOMAIN state.subtrees
  /\ state' = SetActiveTree(state, subtreeId)
  /\ used' = [used EXCEPT !.edits = @ + 1]
  /\ Settle
  /\ UNCHANGED auxvars

LibrarySubtreeClick(subtreeId) ==
  /\ EditAllowed
  /\ subtreeId \in DOMAIN state.librarySubtrees
  /\ subtreeId \notin DOMAIN state.subtrees
  /\ state' = SetActiveTree(AddSubtreeFromLibrary(state, subtreeId), subtreeId)
  /\ used' = [used EXCEPT !.edits = @ + 1]
  /\ Settle
  /\ UNCHANGED auxvars

\* createNewSubtree(name, description, ports) for a name that is free
CreateNewSubtree(subtreeId, description, ports) ==
  /\ EditAllowed
  /\ subtreeId \notin DOMAIN state.librarySubtrees
  /\ subtreeId \notin DOMAIN state.subtrees
  /\ LET newSubtree == MkTree(subtreeId, BodyRoot, <<>>, description, ports)
     IN state' = SetActiveTree(
                   AddSubtreeFromLibrary(
                     AddNewSubtreeToLibrary(state, newSubtree), subtreeId),
                   subtreeId)
  /\ used' = [used EXCEPT !.edits = @ + 1]
  /\ Settle
  /\ UNCHANGED auxvars

\* createNewSubtree for a name the library or the document already holds:
\* warning 'Subtree Exists', nothing is dispatched
CreateNewSubtreeConflict(subtreeId) ==
  /\ pc = "idle"
  /\ state.mainTree # NullTree
  /\ subtreeId \in (DOMAIN state.librarySubtrees) \cup (DOMAIN state.subtrees)
  /\ ret # Returned("createNewSubtree", FALSE, "Subtree Exists")
  /\ ret' = Returned("createNewSubtree", FALSE, "Subtree Exists")
  /\ closure' = initialState
  /\ loc' = NoLoc
  /\ ioLog' = <<>>
  /\ consoleErrors' = {}
  /\ UNCHANGED <<state, disk, diskTime, pc, chain, used>>
  /\ UNCHANGED auxvars

\* ------------------------------------------------------------------------
\* importTreeAsSubtree(filePath, subtreeName, ports)
\* ------------------------------------------------------------------------
\* (the import dialog of the palette is explored with a document open, as
\* the other editing operations are)
ImportedPorts == <<"in">>
\* the files offered to importTreeAsSubtree
ImportPaths == {"f2"}

\* the name is taken in the state the callback was created with: warning
\* 'Subtree Exists', return
ImportConflict(subtreeId) ==
  /\ pc = "idle"
  /\ state.mainTree # NullTree
  /\ subtreeId \in (DOMAIN state.librarySubtrees) \cup (DOMAIN state.subtrees)
  /\ ret # Returned("importTreeAsSubtree", FALSE, "Subtree Exists")
  /\ ret' = Returned("importTreeAsSubtree", FALSE, "Subtree Exists")
  /\ closure' = initialState
  /\ loc' = NoLoc
  /\ ioLog' = <<>>
  /\ consoleErrors' = {}
  /\ UNCHANGED <<state, disk, diskTime, pc, chain, used>>
  /\ UNCHANGED auxvars

\* the name is free in the state the callback was created with: readFile
ImportStart(filePath, subtreeId) ==
  /\ pc = "idle"
  /\ used.saves + used.imports < MaxSaves
  /\ state.mainTree # NullTree
  /\ disk[filePath] # Missing
  /\ subtreeId \notin (DOMAIN state.librarySubtrees) \cup (DOMAIN state.subtrees)
  /\ pc' = "import_read"
  /\ closure' = state
  /\ chain' = FALSE
  /\ loc' = [NoLoc EXCEPT !.targetPath = filePath, !.subtreeId = subtreeId]
  /\ ioLog' = <<>>
  /\ consoleErrors' = {}
  /\ ret' = NoRet
  /\ used' = [used EXCEPT !.imports = @ + 1]
  /\ UNCHANGED <<state, disk, diskTime>>
  /\ UNCHANGED auxvars

\* readFile resolved null: warning 'Could not read file', return
ImportFileMissing ==
  /\ pc = "import_read"
  /\ disk[loc.targetPath] = Missing
  /\ pc' = "idle"
  /\ ret' = Returned("importTreeAsSubtree", FALSE, "Could not read file")
  /\ UNCHANGED <<state, disk, diskTime, closure, loc, chain, ioLog,
                 consoleErrors, used>>
  /\ UNCHANGED auxvars

\* readFile rejected or importMultiTreeFromXML threw: catch, warning
\* 'Failed to import tree'
ImportThrows ==
  /\ pc = "import_read"
  /\ disk[loc.targetPath] # Missing
  /\ pc' = "idle"
  /\ ret' = Returned("importTreeAsSubtree", FALSE, "Failed to import tree")
  /\ UNCHANGED <<state, disk, diskTime, closure, loc, chain, ioLog,
                 consoleErrors, used>>
  /\ UNCHANGED auxvars

\* the file was read and parsed: its main tree becomes the new subtree;
\* dispatch ADD_NEW_SUBTREE_TO_LIBRARY, ADD_SUBTREE_FROM_LIBRARY and
\* SET_ACTIVE_TREE
ImportParsed ==
  /\ pc = "import_read"
  /\ disk[loc.targetPath] # Missing
  /\ MultiTreeParses(disk[loc.targetPath])
  /\ LET parseResult == importMultiTreeFromXML(disk[loc.targetPath])
         newSubtree ==
           [id |-> loc.subtreeId,
            nodes |-> DeepCopy(parseResult.mainTree.nodes),
            edges |-> DeepCopy(parseResult.mainTree.edges),
            variables |-> DeepCopy(parseResult.mainTree.variables),
            description |-> "Imported from file",
            ports |-> ImportedPorts]
     IN state' = SetActiveTree(
                   AddSubtreeFromLibrary(
                     AddNewSubtreeToLibrary(state, newSubtree),
                     loc.subtreeId),
                   loc.subtreeId)
  /\ pc' = "idle"
  /\ ret' = Returned("importTreeAsSubtree", TRUE, "")
  /\ UNCHANGED <<disk, diskTime, closure, loc, chain, ioLog, consoleErrors,
                 used>>
  /\ UNCHANGED auxvars

\* ------------------------------------------------------------------------
\* saveWorkspace and updateWorkspaceFiles
\* ------------------------------------------------------------------------
\* (activeFilePath is set whenever mainTree is, so the save dialog branch of
\* saveWorkspace is never taken and targetPath = state.activeFilePath)
updatedLibrary == MergeLibrary(closure.librarySubtrees, closure.subtrees)

\* saveWorkspace entered: step 1 writes the current tree file
SaveStart ==
  /\ pc = "idle"
  /\ used.saves + used.imports < MaxSaves
  /\ state.mainTree # NullTree
  /\ closure' = state
  /\ chain' = FALSE
  /\ loc' = [NoLoc EXCEPT !.targetPath = state.activeFilePath]
  /\ pc' = "save_doc"
  /\ ioLog' = <<Ev("start", "write", state.activeFilePath)>>
  /\ consoleErrors' = {}
  /\ ret' = NoRet
  /\ used' = [used EXCEPT !.saves = @ + 1]
  /\ UNCHANGED <<state, disk, diskTime>>
  /\ UNCHANGED auxvars

\* a write of step 1 or 2 rejected: catch, 'Save Error' warning, return false
SaveWriteFails ==
  /\ pc \in {"save_doc", "save_lib"}
  /\ pc' = "idle"
  /\ ioLog' = Append(ioLog, Ev("fail", "write",
                               IF pc = "save_doc" THEN loc.targetPath
                               ELSE LibraryPath))
  /\ ret' = Returned("saveWorkspace", FALSE, "Save Error")
  /\ UNCHANGED <<state, disk, diskTime, closure, loc, chain, consoleErrors,
                 used>>
  /\ UNCHANGED auxvars

\* dispatch CLEAR_MODIFIED_SUBTREES and return true, applied to store value s
\* (targetPath equals state.activeFilePath: no SET_ACTIVE_FILE)
SaveFinish(s) ==
  /\ state' = ClearModifiedSubtrees(s)
  /\ pc' = "idle"
  /\ ret' = Returned("saveWorkspace", TRUE, "")

\* go on with the file at index i of the loop of updateWorkspaceFiles, or
\* leave the loop and finish the save when i = 0
ContinueWith(i, log) ==
  IF i = 0
  THEN /\ SaveFinish(state)
       /\ loc' = [loc EXCEPT !.idx = 0]
       /\ ioLog' = log
  ELSE /\ pc' = "p3_read"
       /\ loc' = [loc EXCEPT !.idx = i]
       /\ ioLog' = Append(log, Ev("start", "read",
                                  closure.workspaceFiles[i].path))
       /\ UNCHANGED <<state, ret>>

\* step 1 done; step 2 writes the merged library when a workspace is open
\* variant: step 3 runs right after step 1, the library is not written
SaveDocWritten_SkipsLibrary ==
  /\ pc = "save_doc"
  /\ WriteFile(loc.targetPath,
               exportMultiTreeToXML(closure.mainTree, closure.subtrees))
  /\ ContinueWith(NextFile(closure.workspaceFiles, 0, loc.targetPath),
                  Append(ioLog, Ev("done", "write", loc.targetPath)))
  /\ UNCHANGED <<closure, chain, consoleErrors, used>>
  /\ UNCHANGED auxvars

SaveDocWritten ==
  /\ pc = "save_doc"
  /\ WriteFile(loc.targetPath,
               exportMultiTreeToXML(closure.mainTree, closure.subtrees))
  /\ IF closure.workspacePath # Null
     THEN /\ pc' = "save_lib"
          /\ ioLog' = (ioLog \o <<Ev("done", "write", loc.targetPath)>>)
                        \o <<Ev("start", "write", LibraryPath)>>
          /\ UNCHANGED <<state, ret>>
     ELSE /\ SaveFinish(state)
          /\ ioLog' = Append(ioLog, Ev("done", "write", loc.targetPath))
  /\ UNCHANGED <<closure, loc, chain, consoleErrors, used>>
  /\ UNCHANGED auxvars

\* step 2 done: dispatch SET_LIBRARY_SUBTREES; step 3 starts when the
\* workspace lists files and the document embeds subtrees
SaveLibraryWritten ==
  /\ pc = "save_lib"
  /\ WriteFile(LibraryPath, exportSubtreeLibraryToXML(updatedLibrary))
  /\ LET s2 == SetLibrarySubtrees(state, updatedLibrary,
                                  diskTime[LibraryPath] + 1)
         log == Append(ioLog, Ev("done", "write", LibraryPath))
         first == NextFile(closure.workspaceFiles, 0, loc.targetPath)
     IN IF /\ Len(closure.workspaceFiles) > 0
           /\ DOMAIN closure.subtrees # {}
           /\ first # 0
        THEN /\ state' = s2
             /\ pc' = "p3_read"
             /\ loc' = [loc EXCEPT !.idx = first]
             /\ ioLog' = Append(log, Ev("start", "read",
                                        closure.workspaceFiles[first].path))
             /\ UNCHANGED ret
        ELSE /\ SaveFinish(s2)
             /\ ioLog' = log
             /\ UNCHANGED loc
  /\ UNCHANGED <<closure, chain, consoleErrors, used>>
  /\ UNCHANGED auxvars

\* the file the loop of updateWorkspaceFiles is at
CurrentFile == closure.workspaceFiles[loc.idx].path
FollowingFile == NextFile(closure.workspaceFiles, loc.idx, loc.targetPath)

\* readFile resolved null: continue with the next file
UpdateFileMissing ==
  /\ pc = "p3_read"
  /\ disk[CurrentFile] = Missing
  /\ ContinueWith(FollowingFile, Append(ioLog, Ev("null", "read", CurrentFile)))
  /\ UNCHANGED <<disk, diskTime, closure, chain, consoleErrors, used>>
  /\ UNCHANGED auxvars

\* readFile rejected: console.error, go on with the next file
UpdateFileReadThrows ==
  /\ pc = "p3_read"
  /\ disk[CurrentFile] # Missing
  /\ consoleErrors' = consoleErrors \cup {CurrentFile}
  /\ ContinueWith(FollowingFile, Append(ioLog, Ev("fail", "read", CurrentFile)))
  /\ UNCHANGED <<disk, diskTime, closure, chain, used>>
  /\ UNCHANGED auxvars

\* importMultiTreeFromXML threw: console.error, go on with the next file
UpdateFileParseThrows ==
  /\ pc = "p3_read"
  /\ disk[CurrentFile] # Missing
  /\ ~MultiTreeParses(disk[CurrentFile])
  /\ consoleErrors' = consoleErrors \cup {CurrentFile}
  /\ ContinueWith(FollowingFile,
                  Append(ioLog, Ev("badparse", "read", CurrentFile)))
  /\ UNCHANGED <<disk, diskTime, closure, chain, used>>
  /\ UNCHANGED auxvars

\* the file was read and parsed: replace the referenced subtrees and write the
\* file back when it needs an update, else go on with the next file
UpdateFileParsed ==
  /\ pc = "p3_read"
  /\ disk[CurrentFile] # Missing
  /\ MultiTreeParses(disk[CurrentFile])
  /\ LET parseResult == importMultiTreeFromXML(disk[CurrentFile])
         modifiedSubtreeIds == PropagatedIds(closure)
         log == Append(ioLog, Ev("done", "read", CurrentFile))
     IN IF NeedsUpdate(parseResult, modifiedSubtreeIds)
        THEN /\ pc' = "p3_write"
             /\ loc' = [loc EXCEPT !.parseResult =
                          ApplyUpdates(parseResult, modifiedSubtreeIds,
                                       closure.subtrees)]
             /\ ioLog' = Append(log, Ev("start", "write", CurrentFile))
             /\ UNCHANGED <<state, ret>>
        ELSE ContinueWith(FollowingFile, log)
  /\ UNCHANGED <<disk, diskTime, closure, chain, consoleErrors, used>>
  /\ UNCHANGED auxvars

\* the updated file was written: next file
UpdateFileWritten ==
  /\ pc = "p3_write"
  /\ WriteFile(CurrentFile,
               exportMultiTreeToXML(loc.parseResult.mainTree,
                                    loc.parseResult.subtrees))
  /\ ContinueWith(FollowingFile, Append(ioLog, Ev("done", "write", CurrentFile)))
  /\ UNCHANGED <<closure, chain, consoleErrors, used>>
  /\ UNCHANGED auxvars

\* writeFile rejected: console.error, next file
\* variant: the rejection is not caught per file and reaches the catch of
\* saveWorkspace
UpdateFileWriteThrows_AbortsSave ==
  /\ pc = "p3_write"
  /\ pc' = "idle"
  /\ ioLog' = Append(ioLog, Ev("fail", "write", CurrentFile))
  /\ ret' = Returned("saveWorkspace", FALSE, "Save Error")
  /\ UNCHANGED <<state, disk, diskTime, closure, loc, chain, consoleErrors,
                 used>>
  /\ UNCHANGED auxvars

UpdateFileWriteThrows ==
  /\ pc = "p3_write"
  /\ consoleErrors' = consoleErrors \cup {CurrentFile}
  /\ ContinueWith(FollowingFile, Append(ioLog, Ev("fail", "write", CurrentFile)))
  /\ UNCHANGED <<disk, diskTime, closure, chain, used>>
  /\ UNCHANGED auxvars

\* ------------------------------------------------------------------------
Next ==
  \/ \E chained \in BOOLEAN : OpenWorkspaceStart(chained)
  \/ OpenWorkspaceListed
  \/ OpenWorkspaceLibraryLoaded
  \/ OpenWorkspaceLibraryMissing
  \/ OpenWorkspaceLibraryCreated
  \/ OpenWorkspaceFails
  \/ \E path \in Paths : OpenTreeFileStart(path)
  \/ \E path \in Paths : OpenTreeFilePicked(path)
  \/ OpenTreeFileCancelled
  \/ FileRemoved
  \/ OpenTreeFileMissing
  \/ OpenTreeFileReadError
  \/ OpenTreeFileParseError
  \/ OpenTreeFileParsed
  \/ OpenTreeFileContinue
  \/ OpenTreeFileAbort
  \/ \E input \in EditorInputs : EditTree(input[1], input[2])
  \/ \E treeId \in Ids \cup {Null} : SelectTree(treeId)
  \/ \E subtreeId \in Ids : LibrarySubtreeClick(subtreeId)
  \/ \E subtreeId \in Ids : CreateNewSubtree(subtreeId, "new", <<"in">>)
  \/ \E subtreeId \in Ids : CreateNewSubtreeConflict(subtreeId)
  \/ \E subtreeId \in Ids : ImportConflict(subtreeId)
  \/ \E filePath \in ImportPaths, subtreeId \in Ids :
       ImportStart(filePath, subtreeId)
  \/ ImportFileMissing
  \/ ImportThrows
  \/ ImportParsed
  \/ SaveStart
  \/ SaveWriteFails
  \/ SaveDocWritten
  \/ SaveLibraryWritten
  \/ UpdateFileMissing
  \/ UpdateFileReadThrows
  \/ UpdateFileParseThrows
  \/ UpdateFileParsed
  \/ UpdateFileWritten
  \/ UpdateFileWriteThrows

Spec == Init /\ [][Next]_vars

\* ------------------------------------------------------------------------
\* Vocabulary of the properties
\* ------------------------------------------------------------------------
Logged(kind, op, path) == \E i \in 1..Len(ioLog) : ioLog[i] = Ev(kind, op, path)
LoggedBefore(kind, op, path, i) ==
  \E j \in 1..(i - 1) : ioLog[j] = Ev(kind, op, path)

SaveReturnedTrue == ret = Returned("saveWorkspace", TRUE, "")
SaveReturned == ret.op = "saveWorkspace"
OpenReturnedTrue == ret = Returned("openTreeFile", TRUE, "")

\* the paths of the Workspace Index the save works with, without the saved one
OtherIndexedFiles ==
  {closure.workspaceFiles[i].path : i \in 1..Len(closure.workspaceFiles)}
    \ {loc.targetPath}

\* the reference set of a file: embedded ids and SubTree references of main
ReferenceSet(path) == AllRefs(importMultiTreeFromXML(disk[path]))

ReadableAndParses(path) ==
  /\ disk[path] # Missing
  /\ MultiTreeParses(disk[path])
  /\ ~Logged("fail", "read", path)

\* the file holds, for each given id, the library's copy of the component
HoldsLibraryCopies(path, ids) ==
  \A id \in ids :
    /\ id \in DOMAIN disk[path].subs
    /\ id \in DOMAIN state.librarySubtrees
    /\ disk[path].subs[id] = SerializeTree(state.librarySubtrees[id])

\* ------------------------------------------------------------------------
\* C1: during a save with a workspace open the phases run in order: the
\* first file operation is the write of the active document, the library
\* write starts only after that write is done, and no other file is read or
\* written before the library write is done; a save that returns true has
\* completed the library write.
\* ------------------------------------------------------------------------
C1_PhasesInOrder ==
  (ioLog # <<>> /\ closure.workspacePath # Null) =>
    /\ ioLog[1] = Ev("start", "write", loc.targetPath)
    /\ \A i \in 1..Len(ioLog) :
         /\ ioLog[i].path = LibraryPath =>
              /\ ioLog[i].op = "write"
              /\ LoggedBefore("done", "write", loc.targetPath, i)
         /\ ioLog[i].path \notin {loc.targetPath, LibraryPath} =>
              LoggedBefore("done", "write", LibraryPath, i)
    /\ SaveReturnedTrue => Logged("done", "write", LibraryPath)

\* a save that went through the three phases and touched another file
C1_Witness ==
  /\ SaveReturnedTrue
  /\ Logged("done", "write", LibraryPath)
  /\ \E p \in OtherIndexedFiles : Logged("done", "write", p)

\* ------------------------------------------------------------------------
\* C2 as stated: after a save that returns true, every other indexed file
\* that can be read and parsed and whose reference set contains a modified
\* id has been rewritten and holds the library's copy of each such id.
\* ------------------------------------------------------------------------
C2_Original ==
  SaveReturnedTrue =>
    \A p \in OtherIndexedFiles :
      (/\ ReadableAndParses(p)
       /\ ReferenceSet(p) \cap closure.modifiedSubtreeIds # {}) =>
        /\ Logged("done", "write", p)
        /\ HoldsLibraryCopies(p, ReferenceSet(p) \cap closure.modifiedSubtreeIds)

\* C2 amended: the same for every such file whose write did not fail.
C2_RewrittenWithLibraryCopy ==
  SaveReturnedTrue =>
    \A p \in OtherIndexedFiles :
      (/\ ReadableAndParses(p)
       /\ ReferenceSet(p) \cap closure.modifiedSubtreeIds # {}
       /\ ~Logged("fail", "write", p)) =>
        /\ Logged("done", "write", p)
        /\ HoldsLibraryCopies(p, ReferenceSet(p) \cap closure.modifiedSubtreeIds)

\* a file that referenced a modified component through a SubTree node only,
\* or embedded another version of it, now embeds the library's copy
C2_Witness ==
  /\ SaveReturnedTrue
  /\ \E p \in OtherIndexedFiles :
       /\ ReadableAndParses(p)
       /\ ReferenceSet(p) \cap closure.modifiedSubtreeIds # {}
       /\ Logged("done", "write", p)
       /\ HoldsLibraryCopies(p, ReferenceSet(p) \cap closure.modifiedSubtreeIds)
       /\ closure.subtrees["A"].nodes # BodyAct.nodes

\* ------------------------------------------------------------------------
\* C3 as stated: a write of phase 3 goes only to a file, other than the
\* saved one, whose reference set intersects the saved document's
\* modifiedSubtreeIds.
\* ------------------------------------------------------------------------
C3_Original ==
  \A i \in 3..Len(ioLog) :
    (ioLog[i].op = "write" /\ ioLog[i].path # LibraryPath) =>
      /\ ioLog[i].path # loc.targetPath
      /\ MultiTreeParses(disk[ioLog[i].path])
      /\ ReferenceSet(ioLog[i].path) \cap closure.modifiedSubtreeIds # {}

\* ------------------------------------------------------------------------
\* Failures of phase 3, as the log of the save shows them
\* ------------------------------------------------------------------------
ThrownFailure(path) ==
  \/ Logged("fail", "read", path)
  \/ Logged("badparse", "read", path)
  \/ Logged("fail", "write", path)

FailedInPhase3(path) == ThrownFailure(path) \/ Logged("null", "read", path)

Phase3Started == \E p \in OtherIndexedFiles : Logged("start", "read", p)

Phases12Stand ==
  /\ disk[loc.targetPath] =
       exportMultiTreeToXML(closure.mainTree, closure.subtrees)
  /\ disk[LibraryPath] = exportSubtreeLibraryToXML(updatedLibrary)

\* a file that needs the update and meets no failure is written
UpdatedUnlessFailed(path) ==
  (/\ Logged("done", "read", path)
   /\ ~Logged("fail", "write", path)
   /\ ReferenceSet(path) \cap DOMAIN closure.subtrees # {}) =>
     Logged("done", "write", path)

SaveStep == ioLog' # ioLog /\ ioLog' # <<>>

C5_ClearedExactlyOnSuccess ==
  [][SaveStep =>
       IF ret' = Returned("saveWorkspace", TRUE, "")
         THEN ~state'.isDirty /\ state'.modifiedSubtreeIds = {}
         ELSE /\ state'.isDirty = state.isDirty
              /\ state'.modifiedSubtreeIds = state.modifiedSubtreeIds]_vars

\* a save of a dirty document with a modified component has returned true
C5_Witness ==
  /\ SaveReturnedTrue
  /\ closure.isDirty
  /\ closure.modifiedSubtreeIds # {}
  /\ ~state.isDirty
  /\ state.modifiedSubtreeIds = {}

\* ------------------------------------------------------------------------
\* openTreeFile: what the handler holds once the file is parsed and checked
\* ------------------------------------------------------------------------
OpenChecked ==
  /\ loc.parseResult # NoParse
  /\ pc = "open_confirm" \/ ret.op = "openTreeFile"

CountsDiffer(a, b) ==
  Len(a.nodes) # Len(b.nodes) \/ Len(a.edges) # Len(b.edges)

NothingWritten ==
  /\ diskTime' = diskTime
  /\ \A p \in DOMAIN disk : disk'[p] = disk[p] \/ disk'[p] = Missing

\* ------------------------------------------------------------------------
\* C6: the ids checkLibraryDiscrepancies returns are exactly the ids that
\* are in both the file's map and the library's map and whose node count or
\* edge count differs; each is returned once.
\* ------------------------------------------------------------------------
C6_ExactlyCountMismatches ==
  OpenChecked =>
    LET fileSubtrees == loc.parseResult.subtrees
        librarySubtrees == closure.librarySubtrees
        expected == {id \in (DOMAIN fileSubtrees) \cap (DOMAIN librarySubtrees) :
                       CountsDiffer(fileSubtrees[id], librarySubtrees[id])}
    IN /\ SeqToSet(loc.discrepancies) = expected
       /\ Len(loc.discrepancies) = Cardinality(expected)

\* a component with the library's counts but another content was not flagged
C6_Witness ==
  /\ OpenChecked
  /\ \E id \in (DOMAIN loc.parseResult.subtrees)
                 \cap (DOMAIN closure.librarySubtrees) :
       /\ loc.parseResult.subtrees[id].nodes # closure.librarySubtrees[id].nodes
       /\ id \notin SeqToSet(loc.discrepancies)

\* ------------------------------------------------------------------------
\* C7 as stated: after an open that went through the overwrite, every
\* discrepant component of the installed document equals the library's
\* version, the main tree and the other components are as parsed.
\* ------------------------------------------------------------------------
C7_Original ==
  (OpenReturnedTrue /\ loc.discrepancies # <<>>) =>
    /\ DOMAIN state.subtrees = DOMAIN loc.parseResult.subtrees
    /\ state.mainTree = loc.parseResult.mainTree
    /\ \A id \in DOMAIN state.subtrees :
         IF id \in SeqToSet(loc.discrepancies)
         THEN /\ id \in DOMAIN state.librarySubtrees
              /\ state.subtrees[id] = state.librarySubtrees[id]
         ELSE state.subtrees[id] = loc.parseResult.subtrees[id]

\* ------------------------------------------------------------------------
\* C8: no step of openTreeFile up to the confirm dialog changes the store or
\* writes a file, and the step that leaves the dialog returning false (the
\* user aborted) changes nothing of the store and writes nothing.
\* ------------------------------------------------------------------------
C8_AbortChangesNothing ==
  [][(\/ pc' \in {"open_read", "open_confirm"}
      \/ /\ pc = "open_confirm"
         /\ pc' # pc
         /\ ret' # Returned("openTreeFile", TRUE, ""))
       => /\ state' = state
          /\ NothingWritten
          /\ pc = "open_confirm" => ret' = Returned("openTreeFile", FALSE, "")]_vars

\* the user aborted the open of a discrepant document
C8_Witness ==
  /\ ret = Returned("openTreeFile", FALSE, "")
  /\ loc.discrepancies # <<>>
  /\ pc = "idle"

\* ------------------------------------------------------------------------
\* C9: the confirm dialog is shown only for a discrepant document; a
\* document installed without the dialog has no discrepancy with the library
\* the handler checked against and is installed as parsed; a document
\* installed with replaced components comes out of the dialog.
\* ------------------------------------------------------------------------
C9_NoOverwriteWithoutDecision ==
  /\ [](pc = "open_confirm" => loc.discrepancies # <<>>)
  /\ [][(pc \in {"open_read", "open_confirm"}
          /\ ret' = Returned("openTreeFile", TRUE, ""))
         => \/ pc = "open_confirm"
            \/ LET parsed == importMultiTreeFromXML(disk[loc.targetPath])
               IN /\ checkLibraryDiscrepancies(parsed.subtrees,
                                               closure.librarySubtrees) = <<>>
                  /\ state'.subtrees = parsed.subtrees
                  /\ state'.mainTree = parsed.mainTree]_vars

\* a discrepant document was installed after the user chose to continue
C9_Witness ==
  /\ OpenReturnedTrue
  /\ loc.discrepancies # <<>>
  /\ state.subtrees # loc.parseResult.subtrees

\* ------------------------------------------------------------------------
\* C10: when the file read by openTreeFile does not parse, the handler
\* returns false with a warning and the store is left as it was.
\* ------------------------------------------------------------------------
C10_ParseFailureInstallsNothing ==
  [][(/\ pc = "open_read"
      /\ pc' # pc
      /\ disk[loc.targetPath] # Missing
      /\ ~MultiTreeParses(disk[loc.targetPath]))
       => /\ ret'.op = "openTreeFile"
          /\ ~ret'.value
          /\ ret'.warning # ""
          /\ state' = state
          /\ NothingWritten]_vars

\* a file that does not parse was opened over a loaded document
C10_Witness ==
  /\ ret = Returned("openTreeFile", FALSE,
                  "Failed to parse tree file (parse error)")
  /\ state.mainTree # NullTree
  /\ state.activeFilePath # loc.targetPath

\* ------------------------------------------------------------------------
\* C11: the empty library file is written only when the library file is
\* absent, and an openWorkspace that returns true from a folder without a
\* library file leaves the in-memory library empty and an empty library
\* file at the folder's subtree_library.xml.
\* ------------------------------------------------------------------------
C11_AbsentLibrarySynthesized ==
  /\ [](pc = "ws_write" => disk[LibraryPath] = Missing)
  /\ [][(/\ pc \in {"ws_read", "ws_write"}
          /\ disk[LibraryPath] = Missing
          /\ ret' = Returned("openWorkspace", TRUE, ""))
         => /\ state'.librarySubtrees = EmptyMap
            /\ state'.workspacePath = Folder
            /\ disk'[LibraryPath] # Missing
            /\ LibraryParses(disk'[LibraryPath])
            /\ importSubtreeLibraryFromXML(disk'[LibraryPath]) = EmptyMap]_vars

\* a folder without a library file was opened
C11_Witness ==
  /\ ret = Returned("openWorkspace", TRUE, "")
  /\ state.librarySubtrees = EmptyMap
  /\ state.libraryModifiedTime = NoTime
  /\ disk[LibraryPath] = exportSubtreeLibraryToXML(EmptyMap)
  /\ diskTime[LibraryPath] = 2

\* ------------------------------------------------------------------------
\* Steps that change the in-memory library
\* ------------------------------------------------------------------------
LibraryChanges == state'.librarySubtrees # state.librarySubtrees

\* the dispatch of SET_LIBRARY_SUBTREES by openWorkspace or by saveWorkspace
LibraryLoadedOrMerged ==
  /\ pc \in {"ws_read", "ws_write", "save_lib"}
  /\ pc' # pc

\* the library gets or replaces the entry of one id and keeps every other
SetsOnlyEntry(id) ==
  /\ DOMAIN state'.librarySubtrees = (DOMAIN state.librarySubtrees) \cup {id}
  /\ \A other \in (DOMAIN state.librarySubtrees) \ {id} :
       state'.librarySubtrees[other] = state.librarySubtrees[other]

\* createNewSubtree: a name free in the library gets a lone Root
CreatesEntry ==
  /\ pc' = pc
  /\ state'.activeTreeId \in Ids
  /\ state'.activeTreeId \notin DOMAIN state.librarySubtrees
  /\ SetsOnlyEntry(state'.activeTreeId)
  /\ state'.librarySubtrees[state'.activeTreeId].nodes = BodyRoot.nodes

\* importTreeAsSubtree: the imported name gets the main tree of the file
ImportsEntry ==
  /\ pc = "import_read"
  /\ pc' = "idle"
  /\ SetsOnlyEntry(loc.subtreeId)

\* ------------------------------------------------------------------------
\* C13 as stated: the in-memory library changes only in the step of
\* openWorkspace or saveWorkspace that dispatches SET_LIBRARY_SUBTREES.
\* ------------------------------------------------------------------------
C13_Original == [][LibraryChanges => LibraryLoadedOrMerged]_vars

\* C13 amended: the library changes only in those steps and in the dispatch
\* of createNewSubtree or importTreeAsSubtree, which sets the entry of the
\* new subtree's id and no other; editing, selecting, adding from the
\* library and opening a tree file do not change it.
C13_LibraryWriters ==
  [][LibraryChanges =>
       \/ LibraryLoadedOrMerged
       \/ CreatesEntry
       \/ ImportsEntry]_vars

\* a tree file was imported as a subtree: the library holds it, and the
\* entry it held before is as it was
C13_Witness ==
  /\ ret = Returned("importTreeAsSubtree", TRUE, "")
  /\ loc.subtreeId \in DOMAIN state.librarySubtrees
  /\ loc.subtreeId \notin DOMAIN closure.librarySubtrees
  /\ \E other \in DOMAIN closure.librarySubtrees :
       state.librarySubtrees[other] = closure.librarySubtrees[other]

\* ------------------------------------------------------------------------
\* Name collisions of createNewSubtree and importTreeAsSubtree
\* ------------------------------------------------------------------------
Collides(subtreeId) ==
  subtreeId \in (DOMAIN state.librarySubtrees) \cup (DOMAIN state.subtrees)

ComponentsUntouched ==
  /\ state'.librarySubtrees = state.librarySubtrees
  /\ state'.subtrees = state.subtrees
  /\ state'.modifiedSubtreeIds = state.modifiedSubtreeIds
  /\ state'.isDirty = state.isDirty
  /\ state'.activeTreeId = state.activeTreeId

\* the step in which importTreeAsSubtree comes back from its file read
ImportResumes == pc = "import_read" /\ pc' = "idle"

\* ------------------------------------------------------------------------
\* C15 as stated: a createNewSubtree or importTreeAsSubtree whose id is in
\* the library or in the document changes no component, also when the id
\* got there while importTreeAsSubtree awaited its file read.
\* ------------------------------------------------------------------------
C15_Original ==
  [][/\ (ret' = Returned("createNewSubtree", FALSE, "Subtree Exists"))
          => state' = state
     /\ (ImportResumes /\ Collides(loc.subtreeId))
          => ComponentsUntouched]_vars

\* ------------------------------------------------------------------------
\* The order of the file operations of step 3
\* ------------------------------------------------------------------------
InStep3(e) == e.path \notin {loc.targetPath, LibraryPath}

IndexOf(path) ==
  CHOOSE i \in 1..Len(closure.workspaceFiles) :
    closure.workspaceFiles[i].path = path

\* the files the loop of updateWorkspaceFiles goes through, in index order
LoopFiles ==
  SelectSeq(closure.workspaceFiles, LAMBDA f : f.path # loc.targetPath)

\* the reads step 3 has started, in the order it started them
ReadsStarted ==
  SelectSeq(ioLog, LAMBDA e : InStep3(e) /\ e.kind = "start" /\ e.op = "read")

\* ------------------------------------------------------------------------
\* C16: step 3 of a save takes the workspace files one at a time in index
\* order: the reads it started are the first files of the index other than
\* the saved one, in that order; every file operation of the save has ended
\* (done, null, bad parse or failure) before the next one starts, so at most
\* one is outstanding; and no operation on a file follows an operation on a
\* file later in the index.
\* ------------------------------------------------------------------------
C16_OneFileAtATime ==
  ioLog # <<>> =>
    /\ Len(ReadsStarted) <= Len(LoopFiles)
    /\ \A i \in 1..Len(ReadsStarted) : ReadsStarted[i].path = LoopFiles[i].path
    /\ \A i \in 1..Len(ioLog) :
         IF ioLog[i].kind = "start"
         THEN i < Len(ioLog) =>
                /\ ioLog[i + 1].kind # "start"
                /\ ioLog[i + 1].op = ioLog[i].op
                /\ ioLog[i + 1].path = ioLog[i].path
         ELSE /\ i > 1
              /\ ioLog[i - 1] = Ev("start", ioLog[i].op, ioLog[i].path)
    /\ \A i, j \in 1..Len(ioLog) :
         (i < j /\ InStep3(ioLog[i]) /\ InStep3(ioLog[j]))
           => IndexOf(ioLog[i].path) <= IndexOf(ioLog[j].path)

\* step 3 failed on one file and then started on the next one
C16_Witness ==
  /\ pc = "p3_read"
  /\ Len(ReadsStarted) = 2
  /\ \E i \in 1..Len(ioLog) :
       /\ InStep3(ioLog[i])
       /\ ioLog[i].kind = "fail"
       /\ ioLog[i].op = "write"
       /\ ioLog[i].path # CurrentFile

\* ------------------------------------------------------------------------
\* Overlapping saves.  handleSave (TreeEditor.tsx) calls saveWorkspace from
\* the key handler and from the menu event; neither it nor saveWorkspace
\* looks whether a save is in progress.  Each execution is a frame of `runs`
\* with its own closure and loop position; the store and the files are
\* shared.  The study starts with folder ws open (f2 does not parse, f3
\* embeds A), f1 opened from it and its subtree A selected for editing.
\* ------------------------------------------------------------------------
MaxRuns == 2

RunIds == 1..MaxRuns

NoRun ==
  [pc |-> "none", closure |-> initialState, targetPath |-> Null, idx |-> 0,
   parseResult |-> NoParse]

OverlapDisk == DiskOf(DocNoRoot, DocEmbedA, LibSameCountA)

OverlapStart ==
  LET files == [i \in 1..Len(PathOrder) |->
                  [path |-> PathOrder[i], name |-> PathOrder[i],
                   modifiedTime |-> 1]]
      opened == importMultiTreeFromXML(OverlapDisk["f1"])
      s1 == SetWorkspacePath(initialState, Folder, files)
      s2 == SetLibrarySubtrees(
              s1, importSubtreeLibraryFromXML(OverlapDisk[LibraryPath]), 1)
      s3 == UpdateFileModifiedTime(
              SetActiveFile(s2, "f1", "f1", opened.mainTree, opened.subtrees),
              "f1", 1)
  IN SetActiveTree(s3, "A")

OverlapInit ==
  /\ state = OverlapStart
  /\ disk = OverlapDisk
  /\ diskTime = [p \in AllPaths |-> 1]
  /\ pc = "idle"
  /\ closure = initialState
  /\ loc = NoLoc
  /\ chain = FALSE
  /\ ioLog = <<>>
  /\ consoleErrors = {}
  /\ ret = NoRet
  /\ used = [edits |-> 0, saves |-> 0, opens |-> 0, imports |-> 0]
  /\ heap = NoHeap
  /\ runs = [r \in RunIds |-> NoRun]
  /\ editor = NoEditor
  /\ codec = NoCodec
  /\ sync = NoSync

\* what a run leaves alone
RunFrame == <<pc, closure, loc, chain, ioLog, ret, heap, editor, codec,
              sync>>

InProgress(r) == runs[r].pc \notin {"none", "done", "failed"}

RunMerged(r) == MergeLibrary(runs[r].closure.librarySubtrees,
                             runs[r].closure.subtrees)

RunFile(r) == runs[r].closure.workspaceFiles[runs[r].idx].path

RunFollowing(r) ==
  NextFile(runs[r].closure.workspaceFiles, runs[r].idx, runs[r].targetPath)

\* what the catch of the loop logs: the file and the operation that threw
LoopError(path, op) == [path |-> path, op |-> op]

\* the sync effect of the editor dispatches UPDATE_TREE
OverlapEdit(body, variables) ==
  /\ used.edits < MaxEdits
  /\ state' = UpdateTree(state, state.activeTreeId, body.nodes, body.edges,
                         variables)
  /\ state' # state
  /\ used' = [used EXCEPT !.edits = @ + 1]
  /\ UNCHANGED <<disk, diskTime, consoleErrors, runs>>
  /\ UNCHANGED RunFrame

\* handleSave: saveWorkspace entered, step 1 starts writing the tree file
RunStart(r) ==
  /\ runs[r].pc = "none"
  /\ \A q \in RunIds : q < r => runs[q].pc # "none"
  /\ state.mainTree # NullTree
  /\ runs' = [runs EXCEPT ![r] = [NoRun EXCEPT !.pc = "save_doc",
                                               !.closure = state,
                                               !.targetPath = state.activeFilePath]]
  /\ UNCHANGED <<state, disk, diskTime, consoleErrors, used>>
  /\ UNCHANGED RunFrame

\* a write of step 1 or 2 rejected: catch, return false
RunWriteFails(r) ==
  /\ runs[r].pc \in {"save_doc", "save_lib"}
  /\ runs' = [runs EXCEPT ![r] = [NoRun EXCEPT !.pc = "failed"]]
  /\ UNCHANGED <<state, disk, diskTime, consoleErrors, used>>
  /\ UNCHANGED RunFrame

\* run r goes on with file i of its loop, or dispatches
\* CLEAR_MODIFIED_SUBTREES and returns true when i = 0; s is the store value
RunContinue(r, i, s) ==
  IF i = 0
  THEN /\ state' = ClearModifiedSubtrees(s)
       /\ runs' = [runs EXCEPT ![r] = [NoRun EXCEPT !.pc = "done"]]
  ELSE /\ state' = s
       /\ runs' = [runs EXCEPT ![r].pc = "p3_read", ![r].idx = i,
                               ![r].parseResult = NoParse]

RunDocWritten(r) ==
  /\ runs[r].pc = "save_doc"
  /\ WriteFile(runs[r].targetPath,
               exportMultiTreeToXML(runs[r].closure.mainTree,
                                    runs[r].closure.subtrees))
  /\ IF runs[r].closure.workspacePath # Null
     THEN /\ runs' = [runs EXCEPT ![r].pc = "save_lib"]
          /\ UNCHANGED state
     ELSE RunContinue(r, 0, state)
  /\ UNCHANGED <<consoleErrors, used>>
  /\ UNCHANGED RunFrame

RunLibraryWritten(r) ==
  /\ runs[r].pc = "save_lib"
  /\ WriteFile(LibraryPath, exportSubtreeLibraryToXML(RunMerged(r)))
  /\ LET s2 == SetLibrarySubtrees(state, RunMerged(r),
                                  diskTime[LibraryPath] + 1)
     IN IF /\ Len(runs[r].closure.workspaceFiles) > 0
           /\ DOMAIN runs[r].closure.subtrees # {}
        THEN RunContinue(r, NextFile(runs[r].closure.workspaceFiles, 0,
                                     runs[r].targetPath), s2)
        ELSE RunContinue(r, 0, s2)
  /\ UNCHANGED <<consoleErrors, used>>
  /\ UNCHANGED RunFrame

\* the file a run is about to read is deleted by another program (one
\* deletion is explored)
RunFileRemoved(r) ==
  /\ runs[r].pc = "p3_read"
  /\ \A p \in Paths : disk[p] # Missing
  /\ disk' = [disk EXCEPT ![RunFile(r)] = Missing]
  /\ UNCHANGED <<state, diskTime, consoleErrors, used, runs>>
  /\ UNCHANGED RunFrame

\* readFile resolved null: next file
RunFileMissing(r) ==
  /\ runs[r].pc = "p3_read"
  /\ disk[RunFile(r)] = Missing
  /\ RunContinue(r, RunFollowing(r), state)
  /\ UNCHANGED <<disk, diskTime, consoleErrors, used>>
  /\ UNCHANGED RunFrame

\* readFile rejected or the parse threw: console.error, next file
RunFileUnreadable(r) ==
  /\ runs[r].pc = "p3_read"
  /\ disk[RunFile(r)] # Missing
  /\ consoleErrors' = consoleErrors \cup {LoopError(RunFile(r), "read")}
  /\ RunContinue(r, RunFollowing(r), state)
  /\ UNCHANGED <<disk, diskTime, used>>
  /\ UNCHANGED RunFrame

RunFileParsed(r) ==
  /\ runs[r].pc = "p3_read"
  /\ disk[RunFile(r)] # Missing
  /\ MultiTreeParses(disk[RunFile(r)])
  /\ LET parseResult == importMultiTreeFromXML(disk[RunFile(r)])
         modifiedSubtreeIds == PropagatedIds(runs[r].closure)
     IN IF NeedsUpdate(parseResult, modifiedSubtreeIds)
        THEN /\ runs' = [runs EXCEPT
                           ![r].pc = "p3_write",
                           ![r].parseResult =
                             ApplyUpdates(parseResult, modifiedSubtreeIds,
                                          runs[r].closure.subtrees)]
             /\ UNCHANGED state
        ELSE RunContinue(r, RunFollowing(r), state)
  /\ UNCHANGED <<disk, diskTime, consoleErrors, used>>
  /\ UNCHANGED RunFrame

RunFileWritten(r) ==
  /\ runs[r].pc = "p3_write"
  /\ WriteFile(RunFile(r),
               exportMultiTreeToXML(runs[r].parseResult.mainTree,
                                    runs[r].parseResult.subtrees))
  /\ RunContinue(r, RunFollowing(r), state)
  /\ UNCHANGED <<consoleErrors, used>>
  /\ UNCHANGED RunFrame

\* writeFile rejected inside the loop: console.error, next file
RunFileWriteThrows(r) ==
  /\ runs[r].pc = "p3_write"
  /\ consoleErrors' = consoleErrors \cup {LoopError(RunFile(r), "write")}
  /\ RunContinue(r, RunFollowing(r), state)
  /\ UNCHANGED <<disk, diskTime, used>>
  /\ UNCHANGED RunFrame

OverlapNext ==
  \/ \E input \in EditorInputs : OverlapEdit(input[1], input[2])
  \/ \E r \in RunIds : RunStart(r)
  \/ \E r \in RunIds : RunWriteFails(r)
  \/ \E r \in RunIds : RunDocWritten(r)
  \/ \E r \in RunIds : RunLibraryWritten(r)
  \/ \E r \in RunIds : RunFileRemoved(r)
  \/ \E r \in RunIds : RunFileMissing(r)
  \/ \E r \in RunIds : RunFileUnreadable(r)
  \/ \E r \in RunIds : RunFileParsed(r)
  \/ \E r \in RunIds : RunFileWritten(r)
  \/ \E r \in RunIds : RunFileWriteThrows(r)

SpecOverlap == OverlapInit /\ [][OverlapNext]_vars

\* ------------------------------------------------------------------------
\* C17 as stated: at most one execution of saveWorkspace is in progress.
\* ------------------------------------------------------------------------
C17_Original ==
  \A q, r \in RunIds : (InProgress(q) /\ InProgress(r)) => q = r

\* ------------------------------------------------------------------------
\* C12 as stated: when a save with a workspace open returns true, the
\* library holds the definition of the saved document for each of its
\* embedded components and its former definition for every other id, and
\* the library file holds this merged map.
\* ------------------------------------------------------------------------
C12_Original ==
  [][\A r \in RunIds :
       (/\ runs[r].pc \notin {"none", "done"}
        /\ runs'[r].pc = "done"
        /\ runs[r].closure.workspacePath # Null)
         => /\ state'.librarySubtrees = RunMerged(r)
            /\ disk'[LibraryPath] = exportSubtreeLibraryToXML(RunMerged(r))]_vars

\* the state the study of overlapping saves starts from
OverlapStartReached ==
  /\ pc = "idle"
  /\ state = OverlapStart
  /\ disk = OverlapDisk

\* ------------------------------------------------------------------------
\* Object identities.  The store's two Maps hold JavaScript objects; a
\* TreeData is told from another by its identity and by the identities of
\* its nodes, edges and variables arrays.  A number names the allocation
\* that made the object; the same number in two fields of one record does
\* not mean the arrays are one.
\* ------------------------------------------------------------------------
MaxObjects == 6

\* a TreeData made by the parser, by a literal with JSON copies or by
\* createNewSubtree: the object and its arrays are new
Fresh(n) == [self |-> n, nodes |-> n, edges |-> n, variables |-> n]

\* position of id among the keys ids, in iteration order
Rank(id, ids) ==
  Cardinality({x \in ids : \E i, j \in 1..Len(IdOrder) :
                             /\ IdOrder[i] = x
                             /\ IdOrder[j] = id
                             /\ i < j})

\* new objects for the keys ids, allocated from n on
AllocFor(ids, n) == [id \in ids |-> Fresh(n + Rank(id, ids))]

CanAllocate(k) == heap.next + k <= MaxObjects + 1

HeapInit ==
  /\ state = initialState
  /\ disk = OverlapDisk
  /\ diskTime = [p \in AllPaths |-> 1]
  /\ pc = "idle"
  /\ closure = initialState
  /\ loc = NoLoc
  /\ chain = FALSE
  /\ ioLog = <<>>
  /\ consoleErrors = {}
  /\ ret = NoRet
  /\ used = [edits |-> 0, saves |-> 0, opens |-> 0, imports |-> 0]
  /\ heap = NoHeap
  /\ runs = NoRuns
  /\ editor = NoEditor
  /\ codec = NoCodec
  /\ sync = NoSync

HeapFrame == <<state, disk, diskTime, pc, closure, loc, chain, ioLog,
               consoleErrors, ret, used, runs, editor, codec, sync>>

\* openWorkspace: SET_LIBRARY_SUBTREES with the Map the parser built
HeapOpenWorkspace(ids) ==
  /\ CanAllocate(Cardinality(ids))
  /\ heap' = [heap EXCEPT !.workspacePath = Folder,
                          !.librarySubtrees = AllocFor(ids, heap.next),
                          !.next = @ + Cardinality(ids)]
  /\ heap' # heap
  /\ UNCHANGED HeapFrame

\* openTreeFile: the parser builds the subtrees ids; those of discrepancies
\* are replaced by literals holding JSON copies of the library's arrays;
\* SET_ACTIVE_FILE stores a new Map of these objects
HeapOpenTreeFile(ids, discrepancies) ==
  /\ discrepancies \subseteq ids \cap (DOMAIN heap.librarySubtrees)
  /\ CanAllocate(Cardinality(ids) + Cardinality(discrepancies))
  /\ LET parsed == AllocFor(ids, heap.next)
         copies == AllocFor(discrepancies, heap.next + Cardinality(ids))
     IN heap' = [heap EXCEPT
                   !.hasMainTree = TRUE,
                   !.subtrees = [id \in ids |->
                                   IF id \in discrepancies THEN copies[id]
                                   ELSE parsed[id]],
                   !.next = @ + Cardinality(ids) + Cardinality(discrepancies)]
  /\ heap' # heap
  /\ UNCHANGED HeapFrame

\* ADD_SUBTREE_FROM_LIBRARY: subtreeCopy is a literal with JSON copies
HeapAddFromLibrary(subtreeId) ==
  /\ subtreeId \in DOMAIN heap.librarySubtrees
  /\ CanAllocate(1)
  /\ heap' = [heap EXCEPT
                !.subtrees = MapSet(heap.subtrees, subtreeId, Fresh(heap.next)),
                !.next = @ + 1]
  /\ UNCHANGED HeapFrame

\* createNewSubtree and importTreeAsSubtree: newSubtree goes into the library
\* as it is (ADD_NEW_SUBTREE_TO_LIBRARY), a copy of it into the document
\* (ADD_SUBTREE_FROM_LIBRARY)
HeapNewSubtree(subtreeId) ==
  /\ subtreeId \notin (DOMAIN heap.librarySubtrees) \cup (DOMAIN heap.subtrees)
  /\ CanAllocate(2)
  /\ heap' = [heap EXCEPT
                !.librarySubtrees =
                   MapSet(heap.librarySubtrees, subtreeId, Fresh(heap.next)),
                !.subtrees =
                   MapSet(heap.subtrees, subtreeId, Fresh(heap.next + 1)),
                !.next = @ + 2]
  /\ UNCHANGED HeapFrame

\* UPDATE_TREE of a subtree: a new object holding the editor's arrays and
\* the variables array of the object it replaces
HeapUpdateTree(treeId) ==
  /\ heap.hasMainTree
  /\ treeId \in DOMAIN heap.subtrees
  /\ CanAllocate(1)
  /\ heap' = [heap EXCEPT
                !.subtrees[treeId] =
                   [Fresh(heap.next) EXCEPT
                      !.variables = heap.subtrees[treeId].variables],
                !.next = @ + 1]
  /\ UNCHANGED HeapFrame

\* saveWorkspace step 2: updatedLibrary.set(subtreeId, subtree) for every
\* subtree of the document, then SET_LIBRARY_SUBTREES
HeapSaveMerge ==
  /\ heap.hasMainTree
  /\ heap.workspacePath # Null
  /\ heap' = [heap EXCEPT
                !.librarySubtrees =
                   MergeLibrary(heap.librarySubtrees, heap.subtrees)]
  /\ heap' # heap
  /\ UNCHANGED HeapFrame

HeapNext ==
  \/ \E ids \in SUBSET Ids : HeapOpenWorkspace(ids)
  \/ \E ids \in SUBSET Ids, discrepancies \in SUBSET Ids :
       HeapOpenTreeFile(ids, discrepancies)
  \/ \E subtreeId \in Ids : HeapAddFromLibrary(subtreeId)
  \/ \E subtreeId \in Ids : HeapNewSubtree(subtreeId)
  \/ \E treeId \in Ids : HeapUpdateTree(treeId)
  \/ HeapSaveMerge

SpecHeap == HeapInit /\ [][HeapNext]_vars

\* two TreeData are one object or hold one nodes or edges array
SharesObjects(a, b) ==
  \/ a.self = b.self
  \/ a.nodes = b.nodes
  \/ a.edges = b.edges

\* ------------------------------------------------------------------------
\* C14 as stated: the document's subtree and the library's entry of the same
\* id are never one object and never hold one nodes or edges array.
\* ------------------------------------------------------------------------
C14_Original ==
  \A id \in (DOMAIN heap.subtrees) \cap (DOMAIN heap.librarySubtrees) :
    ~SharesObjects(heap.subtrees[id], heap.librarySubtrees[id])

\* ------------------------------------------------------------------------
\* The canvas of TreeEditor.  A node is named by its position in `nodes`,
\* which holds its category; an edge is a source and a target; `last` tells
\* through which return the last onConnect left.  The canvas starts with the
\* Root node the initialisation effect puts on it.
\* ------------------------------------------------------------------------
MaxCanvasNodes == 4

\* params.source or params.target null
NoNode == 0

\* categories of the palette entries explored
PaletteCategories == {"root", "control", "action"}

Incoming(eds, target) == {e \in eds : e.target = target}
Outgoing(eds, source) == {e \in eds : e.source = source}

\* reactflow's addEdge: the connection is added unless the edges hold it
addEdge(params, eds) == eds \cup {params}

\* the return statement the updater of onConnect leaves through
\* variant: a second incoming connection is not rejected
ConnectOutcome_AnyIncoming(nodes, eds, source, target) ==
  IF target = NoNode \/ source = NoNode THEN "no endpoint"
  ELSE LET isControl == source \in DOMAIN nodes /\ nodes[source] = "control"
       IN IF ~isControl /\ Cardinality(Outgoing(eds, source)) >= 1
          THEN "source taken"
          ELSE "added"

\* variant: every source is treated as a control node
ConnectOutcome_AnyOutgoing(nodes, eds, source, target) ==
  IF target = NoNode \/ source = NoNode THEN "no endpoint"
  ELSE IF Cardinality(Incoming(eds, target)) >= 1 THEN "target taken"
  ELSE "added"

ConnectOutcome(nodes, eds, source, target) ==
  IF target = NoNode \/ source = NoNode THEN "no endpoint"
  ELSE IF Cardinality(Incoming(eds, target)) >= 1 THEN "target taken"
  ELSE LET isControl == source \in DOMAIN nodes /\ nodes[source] = "control"
       IN IF ~isControl /\ Cardinality(Outgoing(eds, source)) >= 1
          THEN "source taken"
          ELSE "added"

onConnect(nodes, eds, source, target) ==
  IF ConnectOutcome(nodes, eds, source, target) = "added"
  THEN addEdge(Edge(source, target), eds)
  ELSE eds

EditorInit ==
  /\ state = initialState
  /\ disk = OverlapDisk
  /\ diskTime = [p \in AllPaths |-> 1]
  /\ pc = "idle"
  /\ closure = initialState
  /\ loc = NoLoc
  /\ chain = FALSE
  /\ ioLog = <<>>
  /\ consoleErrors = {}
  /\ ret = NoRet
  /\ used = [edits |-> 0, saves |-> 0, opens |-> 0, imports |-> 0]
  /\ heap = NoHeap
  /\ runs = NoRuns
  /\ editor = [NoEditor EXCEPT !.nodes = <<"root">>]
  /\ codec = NoCodec
  /\ sync = NoSync

EditorFrame == <<state, disk, diskTime, pc, closure, loc, chain, ioLog,
                 consoleErrors, ret, used, heap, runs, codec, sync>>

\* onDrop: a palette entry becomes a node; a second root is refused with an
\* alert
\* variant: the root entry is dropped like any other
DropNode_AnyRoot(category) ==
  /\ Len(editor.nodes) < MaxCanvasNodes
  /\ editor' = [editor EXCEPT !.nodes = Append(@, category), !.last = "none"]
  /\ UNCHANGED EditorFrame

DropNode(category) ==
  /\ Len(editor.nodes) < MaxCanvasNodes
  /\ IF /\ category = "root"
        /\ \E n \in DOMAIN editor.nodes : editor.nodes[n] = "root"
     THEN editor' = [editor EXCEPT !.last = "second root"]
     ELSE editor' = [editor EXCEPT !.nodes = Append(@, category),
                                   !.last = "none"]
  /\ UNCHANGED EditorFrame

\* the user drags a connection from source to target: setEdges(updater).
\* (Both handles of a node are unnamed and the canvas runs in loose
\* connection mode, in which a connection from a handle to a handle of the
\* same node and the same name is not offered.)
Connect(source, target) ==
  /\ source \in (DOMAIN editor.nodes) \cup {NoNode}
  /\ target \in (DOMAIN editor.nodes) \cup {NoNode}
  /\ source = NoNode \/ source # target
  /\ editor' = [editor EXCEPT
                  !.edges = onConnect(editor.nodes, editor.edges, source, target),
                  !.last = ConnectOutcome(editor.nodes, editor.edges,
                                          source, target)]
  /\ UNCHANGED EditorFrame

\* onEdgesChange: the user deletes an edge
RemoveEdge(e) ==
  /\ e \in editor.edges
  /\ editor' = [editor EXCEPT !.edges = @ \ {e}, !.last = "none"]
  /\ UNCHANGED EditorFrame

CanvasIds == 1..MaxCanvasNodes

EditorNext ==
  \/ \E category \in PaletteCategories : DropNode(category)
  \/ \E source, target \in CanvasIds \cup {NoNode} : Connect(source, target)
  \/ \E source, target \in CanvasIds : RemoveEdge(Edge(source, target))

SpecEditor == EditorInit /\ [][EditorNext]_vars

\* ------------------------------------------------------------------------
\* C18: on the canvas every node is the target of at most one edge, and an
\* onConnect whose target has an incoming edge leaves the edges as they are.
\* ------------------------------------------------------------------------
C18_AtMostOneIncoming ==
  /\ [](\A n \in DOMAIN editor.nodes :
          Cardinality(Incoming(editor.edges, n)) <= 1)
  /\ [][editor'.last = "target taken" => editor'.edges = editor.edges]_vars

\* a connection to a node that has a parent was refused
C18_Witness ==
  /\ editor.last = "target taken"
  /\ editor.edges # {}

\* ------------------------------------------------------------------------
\* C19: every node that is not a control node is the source of at most one
\* edge, control nodes are not limited, and an onConnect refused for its
\* source leaves the edges as they are.
\* ------------------------------------------------------------------------
C19_OneChildUnlessControl ==
  /\ [](\A n \in DOMAIN editor.nodes :
          editor.nodes[n] # "control"
            => Cardinality(Outgoing(editor.edges, n)) <= 1)
  /\ [][editor'.last = "source taken" => editor'.edges = editor.edges]_vars

\* a control node has two children and a second child of another node was
\* refused
C19_Witness ==
  /\ editor.last = "source taken"
  /\ \E n \in DOMAIN editor.nodes :
       /\ editor.nodes[n] = "control"
       /\ Cardinality(Outgoing(editor.edges, n)) >= 2

\* ------------------------------------------------------------------------
\* C20 as stated: no edge of the canvas has the root node as its target.
\* ------------------------------------------------------------------------
C20_Original ==
  \A e \in editor.edges : editor.nodes[e.target] # "root"

\* ------------------------------------------------------------------------
\* C21: drops never give the canvas a second root node, and the drop of a
\* root entry on a canvas that has a root changes neither the nodes, nor the
\* edges, nor the store.
\* ------------------------------------------------------------------------
C21_OneRootThroughDrops ==
  /\ [](Cardinality({n \in DOMAIN editor.nodes : editor.nodes[n] = "root"}) <= 1)
  /\ [][editor'.last = "second root"
         => /\ editor'.nodes = editor.nodes
            /\ editor'.edges = editor.edges
            /\ state' = state]_vars

\* a root entry was dropped on a canvas holding the root, another node and an
\* edge
C21_Witness ==
  /\ editor.last = "second root"
  /\ Len(editor.nodes) >= 2
  /\ editor.edges # {}

\* the nodes reached from the nodes of from in at most k steps along edges
RECURSIVE Reached(_, _, _)
Reached(eds, from, k) ==
  IF k = 0 THEN from
  ELSE Reached(eds, from \cup {e.target : e \in {x \in eds : x.source \in from}},
               k - 1)

ChildrenOnCanvas(n) == {e.target : e \in Outgoing(editor.edges, n)}

\* ------------------------------------------------------------------------
\* C22 as stated: the edges of the canvas hold no self-loop and no directed
\* cycle, and every node that has a parent is reached from a node that has
\* none.
\* ------------------------------------------------------------------------
C22_Original ==
  /\ \A e \in editor.edges : e.source # e.target
  /\ \A n \in DOMAIN editor.nodes :
       n \notin Reached(editor.edges, ChildrenOnCanvas(n), Len(editor.nodes))
  /\ \A n \in DOMAIN editor.nodes :
       Incoming(editor.edges, n) # {}
         => \E r \in DOMAIN editor.nodes :
              /\ Incoming(editor.edges, r) = {}
              /\ n \in Reached(editor.edges, {r}, Len(editor.nodes))

\* ------------------------------------------------------------------------
\* The wire format alone: a document is exported and the text imported again
\* ------------------------------------------------------------------------
\* longest field value explored
MaxText == 3
Chars == {"{", "}", "x"}
Texts == UNION {[1..n -> Chars] : n \in 0..MaxText}

\* the field values the properties panel can hold: any text, either kind
StudyFields ==
  {Field("output_key", valueType, value) :
     valueType \in {"literal", "variable"}, value \in Texts}

\* the node onAddDeclareVariableNode creates: output_key and value
DeclareVariable(outputKey) ==
  [category |-> "action", type |-> "DeclareVariable", subtreeId |-> "",
   fields |-> <<outputKey, Field("value", "literal", <<"x">>)>>]

CodecShapes == {"single", "sequence", "rootless"}
CodecBody(shape, outputKey) ==
  IF shape = "single"
  THEN [nodes |-> <<RootNode, DeclareVariable(outputKey)>>,
        edges |-> <<Edge(1, 2)>>]
  ELSE IF shape = "sequence"
  THEN [nodes |-> <<RootNode, SeqNode, ActNode, DeclareVariable(outputKey)>>,
        edges |-> <<Edge(1, 2), Edge(2, 3), Edge(2, 4)>>]
  ELSE [nodes |-> <<DeclareVariable(outputKey)>>, edges |-> <<>>]

CodecSubtrees ==
  {EmptyMap,
   [id \in {"A"} |-> MkTree("A", BodyVar, <<>>, "about A", <<"in">>)]}

CodecDocuments ==
  {[mainTree |-> MkTree("MainTree", CodecBody(shape, outputKey), <<>>, "", <<>>),
    subtrees |-> subs] :
     shape \in CodecShapes, outputKey \in StudyFields, subs \in CodecSubtrees}

CodecInit ==
  /\ state = initialState
  /\ disk = [p \in AllPaths |-> Missing]
  /\ diskTime = [p \in AllPaths |-> 1]
  /\ pc = "idle"
  /\ closure = initialState
  /\ loc = NoLoc
  /\ chain = FALSE
  /\ ioLog = <<>>
  /\ consoleErrors = {}
  /\ ret = NoRet
  /\ used = [edits |-> 0, saves |-> 0, opens |-> 0, imports |-> 0]
  /\ heap = NoHeap
  /\ runs = NoRuns
  /\ editor = NoEditor
  /\ codec \in {[stage |-> "document", doc |-> d] : d \in CodecDocuments}
  /\ sync = NoSync

CodecFrame == <<state, disk, diskTime, pc, closure, loc, chain, ioLog,
                consoleErrors, ret, used, heap, runs, editor, sync>>

\* exportMultiTreeToXML(mainTree, subtrees)
CodecExport ==
  /\ codec.stage = "document"
  /\ codec' = [stage |-> "text", doc |-> codec.doc,
               text |-> exportMultiTreeToXML(codec.doc.mainTree,
                                             codec.doc.subtrees)]
  /\ UNCHANGED CodecFrame

\* importMultiTreeFromXML(xmlString): a document, or it throws
CodecImport ==
  /\ codec.stage = "text"
  /\ codec' = IF MultiTreeParses(codec.text)
              THEN [stage |-> "parsed", doc |-> codec.doc,
                    text |-> codec.text,
                    parsed |-> importMultiTreeFromXML(codec.text)]
              ELSE [stage |-> "error", doc |-> codec.doc,
                    text |-> codec.text]
  /\ UNCHANGED CodecFrame

CodecNext ==
  \/ CodecExport
  \/ CodecImport

SpecCodec == CodecInit /\ [][CodecNext]_vars

\* --- vocabulary ---------------------------------------------------------
\* the graph invariants: one root without a parent, one parent for the rest
WellFormed(tree) ==
  /\ Cardinality(RootIndexes(tree.nodes)) = 1
  /\ \A i \in 1..Len(tree.nodes) :
       Cardinality({k \in 1..Len(tree.edges) : tree.edges[k].target = i})
         = (IF i \in RootIndexes(tree.nodes) THEN 0 ELSE 1)

\* a node without its fields
Bare(node) ==
  [category |-> node.category, type |-> node.type,
   subtreeId |-> node.subtreeId]

SameShape(a, b) ==
  /\ Len(a.nodes) = Len(b.nodes)
  /\ \A i \in 1..Len(a.nodes) : Bare(a.nodes[i]) = Bare(b.nodes[i])
  /\ SeqToSet(a.edges) = SeqToSet(b.edges)

SameFields(a, b) ==
  /\ Len(a.nodes) = Len(b.nodes)
  /\ \A i \in 1..Len(a.nodes) :
       FieldsOf(a.nodes[i]) = FieldsOf(b.nodes[i])

SameComponent(a, b) ==
  /\ a.id = b.id
  /\ SameShape(a, b)
  /\ SameFields(a, b)
  /\ a.ports = b.ports

\* the node elements of a nested element, in document order
RECURSIVE Elements(_)
RECURSIVE ElementsFrom(_, _)
ElementsFrom(children, k) ==
  IF k > Len(children)
  THEN <<>>
  ELSE Elements(children[k]) \o ElementsFrom(children, k + 1)
Elements(element) ==
  <<element.node>> \o ElementsFrom(element.children, 1)

\* C23: claim as stated -- importing the export of a document that satisfies
\* the graph invariants gives the same component ids, the same graph shape,
\* the same valueType and value for every field and the same ports
C23_Original ==
  (/\ codec.stage = "parsed"
   /\ WellFormed(codec.doc.mainTree))
    => /\ SameComponent(codec.doc.mainTree, codec.parsed.mainTree)
       /\ DOMAIN codec.parsed.subtrees = DOMAIN codec.doc.subtrees
       /\ \A id \in DOMAIN codec.doc.subtrees :
            SameComponent(codec.doc.subtrees[id], codec.parsed.subtrees[id])

ActiveTree(s) ==
  IF s.activeTreeId = Null THEN s.mainTree ELSE s.subtrees[s.activeTreeId]

\* C26: claim as stated -- after every UPDATE_TREE the stored variables of
\* the updated tree, the main tree or an embedded subtree that may have
\* existed before, are the variables supplied with the update
C26_Original ==
  [][\A input \in EditorInputs :
       EditTree(input[1], input[2])
         => ActiveTree(state').variables = input[2]]_vars

\* C27: claim as stated -- when the menu action opens a tree file right
\* after a workspace, the discrepancies found for the file are those against
\* the library of the workspace just opened (the one in the store), not those
\* against the library captured before the workspace was opened
C27_Original ==
  (chain /\ OpenChecked) =>
    SeqToSet(loc.discrepancies)
      = {id \in (DOMAIN loc.parseResult.subtrees)
                  \cap (DOMAIN state.librarySubtrees) :
           CountsDiffer(loc.parseResult.subtrees[id],
                        state.librarySubtrees[id])}

\* ------------------------------------------------------------------------
\* TreeEditor and the store: the load effect, the sync effect and the timer
\* ------------------------------------------------------------------------
\* timeouts of the load effect that may be pending at once
MaxTimers == 2

\* nodes, edges and variables the editor may come to hold
SyncInputs ==
  EditorInputs \cup {<<BodyAct, <<>>>>, <<BodyRoot, <<>>>>}

\* the load effect: the canvas takes the active tree, the flag is raised and
\* a timeout of 100 ms is started that will lower it
LoadFromWorkspace(activeTree) ==
  [nodes |-> activeTree.nodes, edges |-> activeTree.edges,
   variables |-> activeTree.variables,
   isLoadingFromWorkspace |-> TRUE, timers |-> sync.timers + 1]

\* a file that embeds A with a description comment and a port declaration
SyncDocument ==
  Doc(BodyRef("A"),
      [id \in {"A"} |-> MkTree("A", BodyAct, <<>>, "about A", <<"in">>)])

\* the document has just been opened
SyncInit ==
  /\ state = LET parseResult == importMultiTreeFromXML(SyncDocument)
             IN SetActiveFile(initialState, "f1", "f1", parseResult.mainTree,
                              parseResult.subtrees)
  /\ disk = OverlapDisk
  /\ diskTime = [p \in AllPaths |-> 1]
  /\ pc = "idle"
  /\ closure = initialState
  /\ loc = NoLoc
  /\ chain = FALSE
  /\ ioLog = <<>>
  /\ consoleErrors = {}
  /\ ret = NoRet
  /\ used = [edits |-> 0, saves |-> 0, opens |-> 0, imports |-> 0]
  /\ heap = NoHeap
  /\ runs = NoRuns
  /\ editor = NoEditor
  /\ codec = NoCodec
  /\ sync = [NoSync EXCEPT !.nodes = state.mainTree.nodes,
                           !.edges = state.mainTree.edges,
                           !.isLoadingFromWorkspace = TRUE,
                           !.timers = 1]

SyncFrame == <<disk, diskTime, pc, closure, loc, chain, ioLog, consoleErrors,
               ret, used, heap, runs, editor, codec>>

\* the sync effect dispatches unless the flag is up
SyncDispatches(nodes) ==
  /\ ~sync.isLoadingFromWorkspace
  /\ state.mainTree # NullTree
  /\ Len(nodes) > 0

\* the user changes the canvas (setNodes, setEdges); the effects of the
\* render run: the sync effect dispatches UPDATE_TREE or returns early, and
\* the active tree replaced by the dispatch runs the load effect again
SyncChange(body, variables) ==
  /\ <<body.nodes, body.edges>> # <<sync.nodes, sync.edges>>
  /\ IF SyncDispatches(body.nodes)
     THEN /\ sync.timers < MaxTimers
          /\ state' = UpdateTree(state, state.activeTreeId, body.nodes,
                                 body.edges, variables)
          /\ sync' = [LoadFromWorkspace(ActiveTree(state'))
                        EXCEPT !.variables = variables]
     ELSE /\ state' = state
          /\ sync' = [sync EXCEPT !.nodes = body.nodes, !.edges = body.edges,
                                  !.variables = variables]
  /\ UNCHANGED SyncFrame

\* the tab bar selects another tree: SET_ACTIVE_TREE, then the load effect
SyncSelectTree(treeId) ==
  /\ treeId \in (DOMAIN state.subtrees) \cup {Null}
  /\ treeId # state.activeTreeId
  /\ sync.timers < MaxTimers
  /\ state' = SetActiveTree(state, treeId)
  /\ sync' = LoadFromWorkspace(ActiveTree(state'))
  /\ UNCHANGED SyncFrame

\* a timeout of the load effect fires: the flag is lowered, nothing renders
SyncTimerFires ==
  /\ sync.timers > 0
  /\ sync' = [sync EXCEPT !.isLoadingFromWorkspace = FALSE,
                          !.timers = @ - 1]
  /\ UNCHANGED state
  /\ UNCHANGED SyncFrame

SyncNext ==
  \/ \E input \in SyncInputs : SyncChange(input[1], input[2])
  \/ \E treeId \in Ids \cup {Null} : SyncSelectTree(treeId)
  \/ SyncTimerFires

\* timeouts fire; the user is under no obligation to touch the canvas again
SpecSync == SyncInit /\ [][SyncNext]_vars /\ WF_vars(SyncTimerFires)

\* no timeout is pending (the effects of a render run with the step)
Quiescent == sync.timers = 0

InSync ==
  /\ ActiveTree(state).nodes = sync.nodes
  /\ ActiveTree(state).edges = sync.edges

\* C28: claim as stated -- every change of the editor's nodes or edges is
\* eventually in the store's active tree, and whenever the editor is
\* quiescent the store's active tree has the editor's nodes and edges
C28_Original ==
  /\ [](Quiescent => InSync)
  /\ (~InSync) ~> InSync

WrittenBy(s) == exportMultiTreeToXML(s.mainTree, s.subtrees)

\* the subtrees of the store whose content is not in the file the save wrote
NotInFile(path) ==
  {id \in DOMAIN state.subtrees :
     \/ disk[path].kind # "doc"
     \/ id \notin DOMAIN disk[path].subs
     \/ disk[path].subs[id] # SerializeTree(state.subtrees[id])}

\* C30: claim as stated -- when the document was edited while a save was
\* waiting for a file operation, then after the save has returned either the
\* file it wrote holds the edited document or the document is still dirty, with
\* every edited subtree still in modifiedSubtreeIds
C30_Original ==
  (/\ SaveReturned
   /\ WrittenBy(state) # WrittenBy(closure))
    => \/ disk[loc.targetPath] = WrittenBy(state)
       \/ /\ state.isDirty
          /\ NotInFile(loc.targetPath) \subseteq state.modifiedSubtreeIds

\* ------------------------------------------------------------------------
\* The in-memory library across saves and workspace openings
\* ------------------------------------------------------------------------
\* openWorkspace is about to dispatch the library of the folder
LoadsLibrary == pc \in {"ws_read", "ws_write"}

\* C31: claim as stated -- between two openings of a workspace the set of
\* component ids of the in-memory library only grows, also across the
\* SET_LIBRARY_SUBTREES of a save during which a component was created
C31_Original ==
  [][~LoadsLibrary
       => DOMAIN state.librarySubtrees \subseteq DOMAIN state'.librarySubtrees]_vars

\* ------------------------------------------------------------------------
\* Several workspace folders. openWorkspace, createNewTree and saveWorkspace
\* with the paths the code builds from state.workspacePath and from the name
\* typed into the New Tree File dialog. Every await of openWorkspace and of
\* the first two steps of saveWorkspace is a step of its own; step 3 of a
\* save runs with every file operation succeeding (its failures are explored
\* with the single folder above).
\* ------------------------------------------------------------------------
\* handlers entered (openWorkspace, createNewTree, saveWorkspace)
MaxFolderOps == 3

\* the folders the openFolder dialog offers
Folders == {"ws", "ws2"}
\* names typed into the New Tree File dialog (a save dialog that accepts any
\* name, the one of the library file included)
NewTreeNames == {"new.xml", "new2.xml", SUBTREE_LIBRARY_FILENAME}
\* the names readdir returns, in its order
DirOrder == <<"a.xml", "new.xml", "new2.xml", SUBTREE_LIBRARY_FILENAME>>

\* path.join(dirPath, filename) and `${workspacePath}/${filename}`
JoinPath(dirPath, filename) == <<dirPath, filename>>
\* filePath.split('/').pop()
FileNameOf(filePath) == filePath[Len(filePath)]
\* fileName.replace(/\.xml$/i, '').replace(/[^a-zA-Z0-9_]/g, '_')
TreeIdOf(fileName) ==
  IF fileName = "new.xml" THEN "new"
  ELSE IF fileName = "new2.xml" THEN "new2"
  ELSE IF fileName = SUBTREE_LIBRARY_FILENAME THEN "subtree_library"
  ELSE "MainTree"

FolderPaths ==
  {JoinPath(d, DirOrder[i]) : d \in Folders, i \in 1..Len(DirOrder)}
LibraryPathOf(workspacePath) == JoinPath(workspacePath, SUBTREE_LIBRARY_FILENAME)

\* fs:listXmlFiles
\* variant: the library file is listed with the tree files
listXmlFiles_KeepsLibrary(dirPath) ==
  LET files == SelectSeq(DirOrder,
                         LAMBDA f : disk[JoinPath(dirPath, f)] # Missing)
  IN [i \in 1..Len(files) |->
        [name |-> files[i], path |-> JoinPath(dirPath, files[i]),
         modifiedTime |-> diskTime[JoinPath(dirPath, files[i])]]]

listXmlFiles(dirPath) ==
  LET files == SelectSeq(DirOrder,
                         LAMBDA f : disk[JoinPath(dirPath, f)] # Missing)
      xmlFiles == SelectSeq(files, LAMBDA f : f # SUBTREE_LIBRARY_FILENAME)
  IN [i \in 1..Len(xmlFiles) |->
        [name |-> xmlFiles[i], path |-> JoinPath(dirPath, xmlFiles[i]),
         modifiedTime |-> diskTime[JoinPath(dirPath, xmlFiles[i])]]]

\* the library of the second folder holds B only
LibB ==
  exportSubtreeLibraryToXML(
    [id \in {"B"} |-> MkTree("B", BodyVar, <<>>, "lib2", <<>>)])

\* ws holds a.xml (embeds A) and a library with A; ws2 holds a.xml (embeds B)
\* and the given library file
FolderDisk(library2) ==
  [p \in FolderPaths |->
     IF p = JoinPath("ws", "a.xml") THEN DocEmbedA
     ELSE IF p = JoinPath("ws2", "a.xml") THEN DocEmbedB
     ELSE IF p = LibraryPathOf("ws") THEN LibBigA
     ELSE IF p = LibraryPathOf("ws2") THEN library2
     ELSE Missing]

FolderInit ==
  /\ state = initialState
  /\ disk \in {FolderDisk(LibB), FolderDisk(Missing), FolderDisk(Corrupt)}
  /\ diskTime = [p \in FolderPaths |-> 1]
  /\ pc = "idle"
  /\ closure = initialState
  /\ loc = [folderPath |-> Null, targetPath |-> Null]
  /\ chain = FALSE
  /\ ioLog = <<>>
  /\ consoleErrors = {}
  /\ ret = NoRet
  /\ used = [opens |-> 0, creates |-> 0, saves |-> 0]
  /\ AuxInit

\* what the handlers of this part leave alone
FolderFrame == <<chain, consoleErrors, heap, runs, editor, codec, sync>>

FolderOpsLeft == used.opens + used.creates + used.saves < MaxFolderOps

\* openWorkspace entered, the openFolder dialog returned folderPath
FolderOpenStart(folderPath) ==
  /\ pc = "idle"
  /\ FolderOpsLeft
  /\ pc' = "ws_list"
  /\ closure' = state
  /\ loc' = [folderPath |-> folderPath, targetPath |-> Null]
  /\ ioLog' = <<>>
  /\ ret' = NoRet
  /\ used' = [used EXCEPT !.opens = @ + 1]
  /\ UNCHANGED <<state, disk, diskTime>>
  /\ UNCHANGED FolderFrame

\* listXmlFiles resolved: dispatch SET_WORKSPACE_PATH, read the library file
FolderListed ==
  /\ pc = "ws_list"
  /\ state' = SetWorkspacePath(state, loc.folderPath,
                               listXmlFiles(loc.folderPath))
  /\ pc' = "ws_read"
  /\ UNCHANGED <<disk, diskTime, closure, loc, ioLog, ret, used>>
  /\ UNCHANGED FolderFrame

\* the library file was read and parsed: dispatch SET_LIBRARY_SUBTREES
FolderLibraryLoaded ==
  /\ pc = "ws_read"
  /\ disk[LibraryPathOf(loc.folderPath)] # Missing
  /\ LibraryParses(disk[LibraryPathOf(loc.folderPath)])
  /\ state' = SetLibrarySubtrees(
                 state,
                 importSubtreeLibraryFromXML(disk[LibraryPathOf(loc.folderPath)]),
                 diskTime[LibraryPathOf(loc.folderPath)])
  /\ pc' = "idle"
  /\ ret' = Returned("openWorkspace", TRUE, "")
  /\ UNCHANGED <<disk, diskTime, closure, loc, ioLog, used>>
  /\ UNCHANGED FolderFrame

\* readFile resolved null: write an empty library file
FolderLibraryMissing ==
  /\ pc = "ws_read"
  /\ disk[LibraryPathOf(loc.folderPath)] = Missing
  /\ pc' = "ws_write"
  /\ UNCHANGED <<state, disk, diskTime, closure, loc, ioLog, ret, used>>
  /\ UNCHANGED FolderFrame

\* the empty library file was written: dispatch SET_LIBRARY_SUBTREES(empty)
FolderLibraryCreated ==
  /\ pc = "ws_write"
  /\ WriteFile(LibraryPathOf(loc.folderPath),
               exportSubtreeLibraryToXML(EmptyMap))
  /\ state' = SetLibrarySubtrees(state, EmptyMap, NoTime)
  /\ pc' = "idle"
  /\ ret' = Returned("openWorkspace", TRUE, "")
  /\ UNCHANGED <<closure, loc, ioLog, used>>
  /\ UNCHANGED FolderFrame

\* readFile rejected (fs:readFile rethrows every error but ENOENT), the
\* library text did not parse, or the write of the empty library rejected:
\* catch, console.error, return false
FolderOpenFails ==
  /\ \/ /\ pc = "ws_read"
        /\ disk[LibraryPathOf(loc.folderPath)] # Missing
     \/ pc = "ws_write"
  /\ pc' = "idle"
  /\ ret' = Returned("openWorkspace", FALSE, "")
  /\ UNCHANGED <<state, disk, diskTime, closure, loc, ioLog, used>>
  /\ UNCHANGED FolderFrame

\* createNewTree: the dialog returned filePath; dispatch SET_ACTIVE_FILE with
\* a main tree that holds the Root node only
FolderCreateNewTree(filePath) ==
  /\ pc = "idle"
  /\ FolderOpsLeft
  /\ LET fileName == FileNameOf(filePath)
         emptyMainTree == MkTree(TreeIdOf(fileName), BodyRoot, <<>>, "", <<>>)
     IN state' = SetActiveFile(state, filePath, fileName, emptyMainTree,
                               EmptyMap)
  /\ state' # state
  /\ ret' = Returned("createNewTree", TRUE, "")
  /\ ioLog' = <<>>
  /\ used' = [used EXCEPT !.creates = @ + 1]
  /\ UNCHANGED <<disk, diskTime, pc, closure, loc>>
  /\ UNCHANGED FolderFrame

\* NodePalette.handleLibrarySubtreeClick
FolderLibrarySubtreeClick(subtreeId) ==
  /\ pc = "idle"
  /\ state.mainTree # NullTree
  /\ subtreeId \in DOMAIN state.librarySubtrees
  /\ state' = SetActiveTree(
                 IF subtreeId \notin DOMAIN state.subtrees
                 THEN AddSubtreeFromLibrary(state, subtreeId)
                 ELSE state,
                 subtreeId)
  /\ state' # state
  /\ ret' = NoRet
  /\ ioLog' = <<>>
  /\ UNCHANGED <<disk, diskTime, pc, closure, loc, used>>
  /\ UNCHANGED FolderFrame

\* SubTreeTabBar.handleTabClick on the tab of the main tree
FolderSelectMainTree ==
  /\ pc = "idle"
  /\ state.mainTree # NullTree
  /\ state.activeTreeId # Null
  /\ state' = SetActiveTree(state, Null)
  /\ ret' = NoRet
  /\ ioLog' = <<>>
  /\ UNCHANGED <<disk, diskTime, pc, closure, loc, used>>
  /\ UNCHANGED FolderFrame

\* TreeEditor's sync effect: dispatch UPDATE_TREE for the active tree
FolderEditTree ==
  /\ pc = "idle"
  /\ state.mainTree # NullTree
  /\ state' = UpdateTree(state, state.activeTreeId, BodyVar.nodes,
                         BodyVar.edges, <<>>)
  /\ state' # state
  /\ ret' = NoRet
  /\ ioLog' = <<>>
  /\ UNCHANGED <<disk, diskTime, pc, closure, loc, used>>
  /\ UNCHANGED FolderFrame

\* saveWorkspace entered: step 1 writes the current tree file
FolderSaveStart ==
  /\ pc = "idle"
  /\ FolderOpsLeft
  /\ state.mainTree # NullTree
  /\ closure' = state
  /\ loc' = [folderPath |-> Null, targetPath |-> state.activeFilePath]
  /\ pc' = "save_doc"
  /\ ioLog' = <<Ev("start", "write", state.activeFilePath)>>
  /\ ret' = NoRet
  /\ used' = [used EXCEPT !.saves = @ + 1]
  /\ UNCHANGED <<state, disk, diskTime>>
  /\ UNCHANGED FolderFrame

\* a write of step 1 or 2 rejected: catch, 'Save Error' warning, return false
FolderSaveWriteFails ==
  /\ pc \in {"save_doc", "save_lib"}
  /\ pc' = "idle"
  /\ ioLog' = Append(ioLog,
                     Ev("fail", "write",
                        IF pc = "save_doc" THEN loc.targetPath
                        ELSE LibraryPathOf(closure.workspacePath)))
  /\ ret' = Returned("saveWorkspace", FALSE, "Save Error")
  /\ UNCHANGED <<state, disk, diskTime, closure, loc, used>>
  /\ UNCHANGED FolderFrame

\* step 1 done; step 2 writes the merged library when a workspace is open,
\* else CLEAR_MODIFIED_SUBTREES and return true
\* variant: the merged library is dispatched before its file is written
FolderSaveDocWritten_DispatchesFirst ==
  /\ pc = "save_doc"
  /\ WriteFile(loc.targetPath,
               exportMultiTreeToXML(closure.mainTree, closure.subtrees))
  /\ IF closure.workspacePath # Null
     THEN /\ pc' = "save_lib"
          /\ ioLog' = (ioLog \o <<Ev("done", "write", loc.targetPath)>>)
                        \o <<Ev("start", "write",
                                LibraryPathOf(closure.workspacePath))>>
          /\ state' = SetLibrarySubtrees(state, updatedLibrary, NoTime)
          /\ UNCHANGED ret
     ELSE /\ SaveFinish(state)
          /\ ioLog' = Append(ioLog, Ev("done", "write", loc.targetPath))
  /\ UNCHANGED <<closure, loc, used>>
  /\ UNCHANGED FolderFrame

FolderSaveDocWritten ==
  /\ pc = "save_doc"
  /\ WriteFile(loc.targetPath,
               exportMultiTreeToXML(closure.mainTree, closure.subtrees))
  /\ IF closure.workspacePath # Null
     THEN /\ pc' = "save_lib"
          /\ ioLog' = (ioLog \o <<Ev("done", "write", loc.targetPath)>>)
                        \o <<Ev("start", "write",
                                LibraryPathOf(closure.workspacePath))>>
          /\ UNCHANGED <<state, ret>>
     ELSE /\ SaveFinish(state)
          /\ ioLog' = Append(ioLog, Ev("done", "write", loc.targetPath))
  /\ UNCHANGED <<closure, loc, used>>
  /\ UNCHANGED FolderFrame

\* updateWorkspaceFiles with every read and write succeeding: the files of
\* the index after position `from`, the saved file excepted, are read, parsed
\* and written back when they reference one of modifiedSubtreeIds; a file
\* that is gone or does not parse is skipped. d is [disk, diskTime, log].
RECURSIVE updateWorkspaceFiles(_, _, _, _, _, _)
updateWorkspaceFiles(d, workspaceFiles, from, excludePath, modifiedSubtreeIds, updatedSubtrees) ==
  LET i == NextFile(workspaceFiles, from, excludePath)
  IN IF i = 0 THEN d
     ELSE LET path == workspaceFiles[i].path
              content == d.disk[path]
              rewritten ==
                exportMultiTreeToXML(
                  ApplyUpdates(importMultiTreeFromXML(content),
                               modifiedSubtreeIds, updatedSubtrees).mainTree,
                  ApplyUpdates(importMultiTreeFromXML(content),
                               modifiedSubtreeIds, updatedSubtrees).subtrees)
              read == Append(d.log, Ev("start", "read", path))
              outcome ==
                IF content = Missing
                THEN [d EXCEPT !.log = Append(read, Ev("null", "read", path))]
                ELSE IF ~MultiTreeParses(content)
                THEN [d EXCEPT !.log =
                        Append(read, Ev("badparse", "read", path))]
                ELSE IF ~NeedsUpdate(importMultiTreeFromXML(content),
                                     modifiedSubtreeIds)
                THEN [d EXCEPT !.log = Append(read, Ev("done", "read", path))]
                ELSE [disk |-> [d.disk EXCEPT ![path] = rewritten],
                      diskTime |-> [d.diskTime EXCEPT ![path] = @ + 1],
                      log |-> (read \o <<Ev("done", "read", path)>>)
                                \o <<Ev("start", "write", path),
                                     Ev("done", "write", path)>>]
          IN updateWorkspaceFiles(outcome, workspaceFiles, i, excludePath,
                                  modifiedSubtreeIds, updatedSubtrees)

\* step 2 done: dispatch SET_LIBRARY_SUBTREES; step 3 when the index lists
\* files and the document embeds subtrees; CLEAR_MODIFIED_SUBTREES; true
FolderSaveLibraryWritten ==
  /\ pc = "save_lib"
  /\ LET libraryPath == LibraryPathOf(closure.workspacePath)
         written ==
           [disk |-> [disk EXCEPT ![libraryPath] =
                        exportSubtreeLibraryToXML(updatedLibrary)],
            diskTime |-> [diskTime EXCEPT ![libraryPath] = @ + 1],
            log |-> Append(ioLog, Ev("done", "write", libraryPath))]
         after ==
           IF Len(closure.workspaceFiles) > 0 /\ DOMAIN closure.subtrees # {}
           THEN updateWorkspaceFiles(written, closure.workspaceFiles, 0,
                                     loc.targetPath, PropagatedIds(closure),
                                     closure.subtrees)
           ELSE written
     IN /\ disk' = after.disk
        /\ diskTime' = after.diskTime
        /\ ioLog' = after.log
        /\ SaveFinish(SetLibrarySubtrees(state, updatedLibrary,
                                         diskTime[libraryPath] + 1))
  /\ UNCHANGED <<closure, loc, used>>
  /\ UNCHANGED FolderFrame

FolderNext ==
  \/ \E folderPath \in Folders : FolderOpenStart(folderPath)
  \/ FolderListed
  \/ FolderLibraryLoaded
  \/ FolderLibraryMissing
  \/ FolderLibraryCreated
  \/ FolderOpenFails
  \/ \E d \in Folders, n \in NewTreeNames : FolderCreateNewTree(JoinPath(d, n))
  \/ \E subtreeId \in Ids : FolderLibrarySubtreeClick(subtreeId)
  \/ FolderSelectMainTree
  \/ FolderEditTree
  \/ FolderSaveStart
  \/ FolderSaveWriteFails
  \/ FolderSaveDocWritten
  \/ FolderSaveLibraryWritten

SpecFolders == FolderInit /\ [][FolderNext]_vars

\* the ids of the components each folder's library held when the session
\* began: A belongs to ws, B to ws2
HomeIds(workspacePath) ==
  IF workspacePath = "ws" THEN {"A"}
  ELSE IF workspacePath = "ws2" THEN {"B"}
  ELSE {}

\* C32: claim as stated -- once openWorkspace has returned, with true or with
\* false, the in-memory library holds no component of a folder other than the
\* one named by workspacePath
C32_Original ==
  (pc = "idle" /\ ret.op = "openWorkspace")
    => DOMAIN state.librarySubtrees \subseteq HomeIds(state.workspacePath)

\* the consequence named by C32: a library file never comes to hold a
\* component of another folder
ForeignInLibraryFile ==
  \E d \in Folders :
    /\ disk[LibraryPathOf(d)] \notin {Missing, Corrupt}
    /\ ~(DOMAIN disk[LibraryPathOf(d)].subs \subseteq HomeIds(d))

\* the paths of the Workspace Index
IndexedPaths(s) == {s.workspaceFiles[i].path : i \in 1..Len(s.workspaceFiles)}

\* saveWorkspace has just returned true for a file that createNewTree created
\* inside the folder that is open
CreatedFileSaved ==
  /\ pc = "idle"
  /\ ret = Returned("saveWorkspace", TRUE, "")
  /\ FileNameOf(loc.targetPath) \in NewTreeNames
  /\ state.workspacePath # Null
  /\ loc.targetPath[1] = state.workspacePath
  /\ loc.targetPath # LibraryPathOf(state.workspacePath)
  /\ disk[loc.targetPath] # Missing

\* C33: claim as stated -- a tree file created with createNewTree inside the
\* open workspace folder and then saved is an entry of the Workspace Index,
\* so that step 3 of later saves visits it
C33_Original == CreatedFileSaved => loc.targetPath \in IndexedPaths(state)

\* saveWorkspace has just returned false from its catch block
SaveFailed == pc = "idle" /\ ret = Returned("saveWorkspace", FALSE, "Save Error")

\* the write that failed was the one of the document
FailedInStep1 == ioLog[Len(ioLog)] = Ev("fail", "write", loc.targetPath)

\* C34: when the write of the document or of the library file fails,
\* saveWorkspace returns false, no file of the index has been read or written,
\* the in-memory library, isDirty and modifiedSubtreeIds are those of the
\* moment the save began, and a failure of the first write leaves the disk as
\* it was, the library file included
C34_FailedSaveChangesNothing ==
  /\ [](SaveFailed =>
         /\ \A i \in 1..Len(ioLog) :
              /\ ioLog[i].op = "write"
              /\ ioLog[i].path \in {loc.targetPath,
                                    LibraryPathOf(closure.workspacePath)}
         /\ FailedInStep1 =>
              \A i \in 1..Len(ioLog) : ioLog[i].path = loc.targetPath
         /\ state.librarySubtrees = closure.librarySubtrees
         /\ state.libraryModifiedTime = closure.libraryModifiedTime
         /\ state.isDirty = closure.isDirty
         /\ state.modifiedSubtreeIds = closure.modifiedSubtreeIds)
  /\ [][(pc \in {"save_doc", "save_lib"} /\ ret'.op = "saveWorkspace"
           /\ ~ret'.value)
          => /\ state' = state
             /\ disk' = disk
             /\ diskTime' = diskTime
             /\ pc' = "idle"]_vars

\* the library write of a save failed while the document held an edited
\* component the library did not have yet in that form
C34_Witness ==
  /\ SaveFailed
  /\ ~FailedInStep1
  /\ state.modifiedSubtreeIds # {}
  /\ state.isDirty
  /\ updatedLibrary # state.librarySubtrees
  /\ disk[loc.targetPath] = exportMultiTreeToXML(state.mainTree, state.subtrees)

\* the library file is in no Workspace Index
LibraryNotIndexed ==
  \A d \in Folders : LibraryPathOf(d) \notin IndexedPaths(state)

\* the completed writes of the library file in the log of the current save
LibraryWrites ==
  {i \in 1..Len(ioLog) :
     ioLog[i] = Ev("done", "write", LibraryPathOf(closure.workspacePath))}

\* C35: claim as stated -- the library file is never an entry of the Workspace
\* Index, a save never reads it, and a save writes it once at most (the write
\* of step 2)
C35_Original ==
  /\ LibraryNotIndexed
  /\ \A i \in 1..Len(ioLog) :
       ioLog[i].path \in {LibraryPathOf(d) : d \in Folders}
         => ioLog[i].op = "write"
  /\ closure.workspacePath # Null => Cardinality(LibraryWrites) <= 1

C37_ActiveTreeEmbedded ==
  state.activeTreeId = Null \/ state.activeTreeId \in DOMAIN state.subtrees

\* a component of the library is the active tree
C37_Witness ==
  /\ state.activeTreeId # Null
  /\ state.activeTreeId \in DOMAIN state.librarySubtrees
  /\ state.mainTree # NullTree
  /\ state.subtrees[state.activeTreeId]
       = state.librarySubtrees[state.activeTreeId]

\* ------------------------------------------------------------------------
\* TreeEditor's undo/redo history. The canvas is the pair of the nodes and the
\* edges arrays; an array is named by its revision, and a change of the
\* canvas makes the next revision of one of them. No drag is in progress
\* (isDraggingRef is false). A step is an event handler together with the
\* render and the effects it causes; the zero-delay timeouts that reset
\* isTimeTravelRef fire as steps of their own, before the next change of the
\* canvas arrives (Ctrl+Z and Ctrl+Shift+Z may repeat while they are pending).
\* ------------------------------------------------------------------------
HISTORY_LIMIT == 20

\* revisions of the nodes array the session reaches
MaxChanges == 22
\* revisions of the edges array; they are made among the first revisions of
\* the nodes array
MaxConnects == 1

Snapshot(nodes, edges) == [nodes |-> nodes, edges |-> edges]

\* [...stack, snapshot].slice(-HISTORY_LIMIT)
\* variant: the stack grows without the slice
Push_Unlimited(stack, snapshot) == Append(stack, snapshot)

Push(stack, snapshot) ==
  LET all == Append(stack, snapshot)
  IN IF Len(all) <= HISTORY_LIMIT THEN all
     ELSE SubSeq(all, Len(all) - HISTORY_LIMIT + 1, Len(all))

\* stack.slice(0, -1)
Pop(stack) == SubSeq(stack, 1, Len(stack) - 1)

\* the effect on [nodes, edges], run after a render that changed one of them
\* variant: the effect records whatever caused the change
RecordHistory_Always(h) ==
  [h EXCEPT !.historyPast = Push(h.historyPast, h.prevSnapshot),
            !.historyFuture = <<>>,
            !.prevSnapshot = Snapshot(h.nodes, h.edges)]

RecordHistory(h) ==
  IF h.isTimeTravel
  THEN [h EXCEPT !.prevSnapshot = Snapshot(h.nodes, h.edges)]
  ELSE [h EXCEPT !.historyPast = Push(h.historyPast, h.prevSnapshot),
                 !.historyFuture = <<>>,
                 !.prevSnapshot = Snapshot(h.nodes, h.edges)]

\* setNodes and setEdges with a snapshot, then the render: the effect runs
\* when one of the arrays is another one than before
Restore(h, before, snapshot) ==
  LET shown == [h EXCEPT !.nodes = snapshot.nodes, !.edges = snapshot.edges]
  IN IF snapshot = Snapshot(before.nodes, before.edges) THEN shown
     ELSE RecordHistory(shown)

\* undo, with the render it causes
undo(h) ==
  IF Len(h.historyPast) = 0 THEN h
  ELSE LET previous == h.historyPast[Len(h.historyPast)]
       IN Restore([h EXCEPT !.historyFuture =
                              Push(h.historyFuture, Snapshot(h.nodes, h.edges)),
                            !.historyPast = Pop(h.historyPast),
                            !.isTimeTravel = TRUE,
                            !.timers = @ + 1],
                  h, previous)

\* redo, with the render it causes
redo(h) ==
  IF Len(h.historyFuture) = 0 THEN h
  ELSE LET next == h.historyFuture[Len(h.historyFuture)]
       IN Restore([h EXCEPT !.historyPast =
                              Push(h.historyPast, Snapshot(h.nodes, h.edges)),
                            !.historyFuture = Pop(h.historyFuture),
                            !.isTimeTravel = TRUE,
                            !.timers = @ + 1],
                  h, next)

\* the editor is mounted with empty arrays; the effect has run once
HistoryStart ==
  [nodes |-> 0, edges |-> 0,
   historyPast |-> <<Snapshot(0, 0)>>, historyFuture |-> <<>>,
   prevSnapshot |-> Snapshot(0, 0),
   isTimeTravel |-> FALSE, timers |-> 0, last |-> "mount"]

HistoryInit ==
  /\ state = initialState
  /\ disk = OverlapDisk
  /\ diskTime = [p \in AllPaths |-> 1]
  /\ pc = "idle"
  /\ closure = initialState
  /\ loc = NoLoc
  /\ chain = FALSE
  /\ ioLog = <<>>
  /\ consoleErrors = {}
  /\ ret = NoRet
  /\ used = [edits |-> 0, saves |-> 0, opens |-> 0, imports |-> 0]
  /\ heap = NoHeap
  /\ runs = NoRuns
  /\ editor = HistoryStart
  /\ codec = NoCodec
  /\ sync = NoSync

\* the handler that ran last
Then(h, handler) == [h EXCEPT !.last = handler]

\* onNodesChange, onDrop, delete: a new nodes array
HistoryNodesChange ==
  /\ editor.timers = 0
  /\ editor.nodes < MaxChanges
  /\ editor' = Then(RecordHistory([editor EXCEPT !.nodes = @ + 1]), "change")
  /\ UNCHANGED EditorFrame

\* onConnect, onEdgesChange: a new edges array
HistoryEdgesChange ==
  /\ editor.timers = 0
  /\ editor.edges < MaxConnects
  /\ editor.nodes < MaxConnects
  /\ editor' = Then(RecordHistory([editor EXCEPT !.edges = @ + 1]), "change")
  /\ UNCHANGED EditorFrame

\* Ctrl+Z
HistoryUndo ==
  /\ editor.timers < MaxTimers
  /\ editor' = Then(undo(editor), "undo")
  /\ editor' # editor
  /\ UNCHANGED EditorFrame

\* Ctrl+Shift+Z
HistoryRedo ==
  /\ editor.timers < MaxTimers
  /\ editor' = Then(redo(editor), "redo")
  /\ editor' # editor
  /\ UNCHANGED EditorFrame

\* setTimeout(() => { isTimeTravelRef.current = false }, 0)
HistoryTimerFires ==
  /\ editor.timers > 0
  /\ editor' = [editor EXCEPT !.timers = @ - 1, !.isTimeTravel = FALSE]
  /\ UNCHANGED EditorFrame

HistoryNext ==
  \/ HistoryNodesChange
  \/ HistoryEdgesChange
  \/ HistoryUndo
  \/ HistoryRedo
  \/ HistoryTimerFires

SpecHistory == HistoryInit /\ [][HistoryNext]_vars

\* the change of this step is recorded on a full undo stack
RecordsOnFullStack ==
  /\ Len(editor.historyPast) = HISTORY_LIMIT
  /\ editor'.last = "change"
  /\ ~editor.isTimeTravel

\* C38: historyPast and historyFuture never hold more than HISTORY_LIMIT
\* snapshots, and a snapshot recorded on a full stack pushes the oldest one out
C38_StacksBounded ==
  /\ [](/\ Len(editor.historyPast) <= HISTORY_LIMIT
        /\ Len(editor.historyFuture) <= HISTORY_LIMIT)
  /\ [][RecordsOnFullStack
          => editor'.historyPast
               = Append(Tail(editor.historyPast), editor.prevSnapshot)]_vars

\* a change was recorded on a full undo stack: the first snapshot is gone
C38_Witness ==
  /\ Len(editor.historyPast) = HISTORY_LIMIT
  /\ editor.historyPast[1] # Snapshot(0, 0)
  /\ editor.last = "change"
  /\ editor.nodes > HISTORY_LIMIT

\* C39: an undo followed at once by a redo shows the nodes and edges the
\* canvas had before and leaves both stacks as they were; an undo takes one
\* snapshot off the past and a redo one off the future without recording a
\* new one; undo on an empty past and redo on an empty future change nothing
C39_UndoThenRedo ==
  /\ Len(editor.historyPast) > 0
       => /\ redo(undo(editor)).nodes = editor.nodes
          /\ redo(undo(editor)).edges = editor.edges
          /\ redo(undo(editor)).historyPast = editor.historyPast
          /\ undo(editor).historyPast = Pop(editor.historyPast)
          /\ Len(undo(editor).historyFuture) > 0
  /\ Len(editor.historyFuture) > 0
       => /\ redo(editor).historyFuture = Pop(editor.historyFuture)
          /\ Len(redo(editor).historyPast) > 0
  /\ Len(editor.historyPast) = 0 => undo(editor) = editor
  /\ Len(editor.historyFuture) = 0 => redo(editor) = editor

\* a redo has just followed an undo of a recorded change
C39_Witness ==
  /\ editor.last = "redo"
  /\ editor.nodes > 0
  /\ Len(editor.historyPast) > 1
  /\ editor.historyFuture = <<>>

====
